---- MODULE Spec2Model ----
(***************************************************************************)
(* Model of langchain-core's log-stream tracer                             *)
(* (src/langchain-core/src/tracers/log_stream.ts): the RunLogPatch/RunLog  *)
(* patch algebra, the run-inclusion filter and LogStreamCallbackHandler.   *)
(*                                                                         *)
(* Representation.  A JSON document is a function from paths to nodes; a   *)
(* path is the sequence of the "/"-separated segments of a JSON pointer    *)
(* (the pointer "/logs/a" is <<"logs", "a">>, the pointer "" is <<>>).     *)
(* A string that is interpolated into a pointer (a run name, a run key) is *)
(* therefore kept as the sequence of its "/"-separated segments: the name  *)
(* "a/b" is <<"a", "b">>.  Scalars are strings.                            *)
(***************************************************************************)
EXTENDS Integers, Sequences, FiniteSets, TLC

VARIABLES
    cfg,                  \* the handler's constructor fields
    rootId,               \* LogStreamCallbackHandler.rootId (0: undefined)
    keyMapByRunId,        \* LogStreamCallbackHandler.keyMapByRunId
    counterMapByRunName,  \* LogStreamCallbackHandler.counterMapByRunName
    queue,                \* patches accepted by writer.write, in call order
    closed,               \* writer.close() has been called
    materialized,         \* the run state: every patch written, applied in order
    received,             \* patches the consumer has read from receiveStream
    ended,                \* the consumer's read has returned done
    runs,                 \* the execution engine's runs, by run id
    last,                 \* the lifecycle notification delivered last
    heap,                 \* RunLog objects built by fromRunLogPatch/concat
    lastLog,              \* the RunLog call made last
    probe,                \* the _includeRun call made last
    std,                  \* the standardization call made last
    wire,                 \* the serialize/revive call made last
    events,               \* the StreamEvents yielded by streamEvents, in order
    remote,               \* the RemoteRunnable call made last
    chan,                 \* the channel's flow control and the handlers awaiting it
    tap                   \* the tapOutputIterable generator started last

vars == <<cfg, rootId, keyMapByRunId, counterMapByRunName, queue, closed,
          materialized, received, ended, runs, last, heap, lastLog, probe, std, wire,
          events, remote, chan, tap>>

\* the event stream, the remote client and the channel's flow control
extVars == <<events, remote, chan, tap>>

tracerVars == <<cfg, rootId, keyMapByRunId, counterMapByRunName, queue,
                closed, materialized, received, ended, runs, last>>

(***************************************************************************)
(* JSON values                                                             *)
(***************************************************************************)
Node(k, v, items) == [k |-> k, v |-> v, items |-> items]

ObjNode == Node("obj", "", <<>>)

ArrNode(items) == Node("arr", "", items)

StrNode(s) == Node("val", s, <<>>)

\* a key that is present and holds `undefined`
UndefNode == Node("undef", "", <<>>)

NullNode == Node("null", "", <<>>)

Scalar(n) == <<>> :> n

\* {}
EmptyDoc == Scalar(ObjNode)

NullDoc == Scalar(NullNode)

\* the outcome of an application that threw
Fail == <<"$fail">> :> UndefNode

Failed(doc) == <<>> \notin DOMAIN doc

IsPrefix(p, q) == Len(p) <= Len(q) /\ SubSeq(q, 1, Len(p)) = p

Front(p) == SubSeq(p, 1, Len(p) - 1)

Last(p) == p[Len(p)]

\* the value at path p of doc (p \in DOMAIN doc)
SubTree(doc, p) ==
    LET rel == {SubSeq(q, Len(p) + 1, Len(q)) : q \in {x \in DOMAIN doc : IsPrefix(p, x)}}
    IN  [r \in rel |-> doc[p \o r]]

\* doc without the value at path p
Prune(doc, p) ==
    [q \in {x \in DOMAIN doc : ~IsPrefix(p, x)} |-> doc[q]]

\* doc with the value at path p set to val (whatever was there is dropped)
Graft(doc, p, val) ==
    LET keep == {x \in DOMAIN doc : ~IsPrefix(p, x)}
        new  == {p \o r : r \in DOMAIN val}
    IN  [q \in keep \cup new |->
            IF q \in new THEN val[SubSeq(q, Len(p) + 1, Len(q))] ELSE doc[q]]

\* an object literal whose members are the given values
ObjectOf(members) ==
    LET paths == {<<>>} \cup
                 UNION {{<<m>> \o r : r \in DOMAIN members[m]} : m \in DOMAIN members}
    IN  [q \in paths |->
            IF q = <<>> THEN ObjNode
            ELSE members[q[1]][SubSeq(q, 2, Len(q))]]

(***************************************************************************)
(* applyPatch of utils/fast-json-patch.  The library is not among the      *)
(* source files; it is modelled from the specification's section 4.1:      *)
(* add (append or set), replace (must target an existing path), remove,    *)
(* and an op list that fails as a whole if any single op is invalid.       *)
(* Only the pointer forms the repository uses are interpreted: object      *)
(* members and the array segment "-" (append).                             *)
(***************************************************************************)
MkOp(op, path, value) == [op |-> op, path |-> path, value |-> value]

ApplyOperation(doc, o) ==
    IF Failed(doc) THEN Fail
    ELSE IF o.path = <<>> THEN
        IF o.op \in {"add", "replace"} THEN o.value ELSE NullDoc
    ELSE IF Front(o.path) \notin DOMAIN doc THEN Fail
    ELSE LET parent == doc[Front(o.path)] IN
        CASE parent.k = "obj" ->
                CASE o.op = "add" -> Graft(doc, o.path, o.value)
                  [] o.op = "replace" ->
                        IF o.path \in DOMAIN doc
                        THEN Graft(doc, o.path, o.value) ELSE Fail
                  [] OTHER ->
                        IF o.path \in DOMAIN doc
                        THEN Prune(doc, o.path) ELSE Fail
          [] parent.k = "arr" ->
                IF o.op = "add" /\ Last(o.path) = "-" /\ o.value[<<>>].k = "val"
                THEN [doc EXCEPT ![Front(o.path)] =
                        ArrNode(Append(parent.items, o.value[<<>>].v))]
                ELSE Fail
          [] OTHER -> Fail

\* the documents after each op, in order: one result per op, or <<Fail>> if
\* an op was invalid (applyPatch threw)
RECURSIVE ApplyPatch(_, _)
ApplyPatch(doc, ops) ==
    IF ops = <<>> THEN <<>>
    ELSE LET next == ApplyOperation(doc, Head(ops)) IN
         IF Failed(next) THEN <<Fail>>
         ELSE LET rest == ApplyPatch(next, Tail(ops)) IN
              IF rest # <<>> /\ Failed(rest[Len(rest)]) THEN <<Fail>>
              ELSE <<next>> \o rest

(***************************************************************************)
(* RunLogPatch and RunLog                                                  *)
(***************************************************************************)
\* new RunLogPatch({ ops }); ops defaults to []
RunLogPatch(ops) == [ops |-> ops]

\* new RunLog({ ops, state })
RunLog(ops, state) == [ops |-> ops, state |-> state]

\* the outcome of a call: the RunLog returned, or threw
Returned(log) == [ok |-> TRUE, log |-> log]

Threw == [ok |-> FALSE, log |-> RunLog(<<>>, Fail)]

\* states[states.length - 1].newDocument: Fail when applyPatch threw and when
\* states is empty (the read of .newDocument of undefined throws)
LastNewDocument(states) ==
    IF states = <<>> THEN Fail ELSE states[Len(states)]

RunLogPatchConcat(this, other) ==
    LET ops    == this.ops \o other.ops
        states == ApplyPatch(EmptyDoc, ops)
        state  == LastNewDocument(states)
    IN  IF Failed(state) THEN Threw ELSE Returned(RunLog(ops, state))

\* faulty variant of RunLog.concat: keeps the document after the first op
RunLogConcatFirstState(this, other) ==
    LET ops    == this.ops \o other.ops
        states == ApplyPatch(this.state, other.ops)
        state  == IF states = <<>> THEN Fail ELSE states[1]
    IN  IF Failed(state) THEN Threw ELSE Returned(RunLog(ops, state))

\* faulty variant of RunLog.concat: ops that do not apply are skipped
RunLogConcatSkipsInvalid(this, other) ==
    LET ops    == this.ops \o other.ops
        states == ApplyPatch(this.state, other.ops)
        state  == LastNewDocument(states)
    IN  IF other.ops # <<>> /\ Failed(state)
        THEN Returned(RunLog(this.ops, this.state))
        ELSE IF Failed(state) THEN Threw ELSE Returned(RunLog(ops, state))

RunLogConcat(this, other) ==
    LET ops    == this.ops \o other.ops
        states == ApplyPatch(this.state, other.ops)
        state  == LastNewDocument(states)
    IN  IF Failed(state) THEN Threw ELSE Returned(RunLog(ops, state))

FromRunLogPatch(patch) ==
    LET states == ApplyPatch(EmptyDoc, patch.ops)
        state  == LastNewDocument(states)
    IN  IF Failed(state) THEN Threw ELSE Returned(RunLog(patch.ops, state))

\* the document a consumer holds after applying ops, in order, to {}: Fail if
\* an op is invalid
Replay(ops) ==
    IF ops = <<>> THEN EmptyDoc ELSE LastNewDocument(ApplyPatch(EmptyDoc, ops))

(***************************************************************************)
(* Values of the marshalling protocol (remote.ts).  A value is a record:   *)
(* t is its kind, cls the class of an instance ("" for plain data), s a    *)
(* scalar's text, m the members of a mapping or the own fields of an       *)
(* instance, items the elements of an array.                               *)
(***************************************************************************)
Value(t, cls, s, m, items) == [t |-> t, cls |-> cls, s |-> s, m |-> m, items |-> items]

Str(s) == Value("str", "", s, <<>>, <<>>)

False == Value("bool", "", "false", <<>>, <<>>)

Null == Value("null", "", "", <<>>, <<>>)

Undef == Value("undefined", "", "", <<>>, <<>>)

DateOf(s) == Value("date", "", s, <<>>, <<>>)

Arr(items) == Value("arr", "", "", <<>>, items)

\* a plain mapping
Obj(m) == Value("obj", "", "", m, <<>>)

\* an instance of class cls with the own fields m
Inst(cls, m) == Value("obj", cls, "", m, <<>>)

\* a TypeError raised while converting
Thrown == Value("throw", "", "", <<>>, <<>>)

\* obj[key]: undefined if there is no such member
Get(v, key) == IF key \in DOMAIN v.m THEN v.m[key] ELSE Undef

\* Array.map: an error raised for an element is raised by the whole
MapOf(items) ==
    IF \E i \in DOMAIN items : items[i] = Thrown THEN Thrown ELSE Arr(items)

\* Object.fromEntries over the converted members
EntriesOf(m) ==
    IF \E k \in DOMAIN m : m[k] = Thrown THEN Thrown ELSE Obj(m)

MessageClasses ==
    {"HumanMessage", "SystemMessage", "ChatMessage", "FunctionMessage",
     "ToolMessage", "AIMessage"}

ChunkClasses == {c \o "Chunk" : c \in MessageClasses}

\* isBaseMessage(x)
IsBaseMessage(v) == v.t = "obj" /\ v.cls \in MessageClasses \cup ChunkClasses

\* x._getType(): a chunk has the type of its message class
GetType(cls) ==
    CASE cls \in {"HumanMessage", "HumanMessageChunk"} -> "human"
      [] cls \in {"SystemMessage", "SystemMessageChunk"} -> "system"
      [] cls \in {"ChatMessage", "ChatMessageChunk"} -> "generic"
      [] cls \in {"FunctionMessage", "FunctionMessageChunk"} -> "function"
      [] cls \in {"ToolMessage", "ToolMessageChunk"} -> "tool"
      [] OTHER -> "ai"

\* ToolMessage.isInstance(x), ChatMessage.isInstance(x)
ToolMessageIsInstance(v) == GetType(v.cls) = "tool"

ChatMessageIsInstance(v) == GetType(v.cls) = "generic"

\* new <cls>(fields): fields not given take the class's defaults
NewMessage(cls, fields) ==
    Inst(cls, fields @@ [content |-> Undef, additional_kwargs |-> Obj(<<>>),
                         name |-> Undef])

NewDocument(pageContent, metadata) ==
    Inst("Document", [pageContent |-> pageContent, metadata |-> metadata])

\* serialize (remote.ts lines 228-261)
RECURSIVE Serialize(_)
Serialize(input) ==
    IF input.t = "arr"
    THEN MapOf([i \in DOMAIN input.items |-> Serialize(input.items[i])])
    ELSE IF IsBaseMessage(input)
    THEN LET serializedMessage ==
                 [content |-> Get(input, "content"),
                  type |-> Str(GetType(input.cls)),
                  additional_kwargs |-> Get(input, "additional_kwargs"),
                  name |-> Get(input, "name"),
                  example |-> False]
         IN  IF ToolMessageIsInstance(input)
             THEN Obj(("tool_call_id" :> Get(input, "tool_call_id")) @@ serializedMessage)
             ELSE IF ChatMessageIsInstance(input)
             THEN Obj(("role" :> Get(input, "role")) @@ serializedMessage)
             ELSE Obj(serializedMessage)
    ELSE IF input.t \in {"null", "date"} THEN input
    ELSE IF input.t = "obj"
    THEN EntriesOf([k \in DOMAIN input.m |-> Serialize(input.m[k])])
    ELSE input

\* no signature of revive matched
NoMatch == Value("nomatch", "", "", <<>>, <<>>)

\* isSuperset(keys, new Set(signature))
IsSuperset(keys, signature) == signature \subseteq keys

\* the message branch (lines 66-139): the type selects the class
ReviveMessage(obj) ==
    LET type    == Get(obj, "type")
        content == Get(obj, "content")
    IN  CASE type \in {Str("HumanMessage"), Str("human")} ->
                NewMessage("HumanMessage", [content |-> content])
          [] type \in {Str("SystemMessage"), Str("system")} ->
                NewMessage("SystemMessage", [content |-> content])
          [] type \in {Str("ChatMessage"), Str("chat")} ->
                NewMessage("ChatMessage", [content |-> content, role |-> Get(obj, "role")])
          [] type \in {Str("FunctionMessage"), Str("function")} ->
                NewMessage("FunctionMessage", [content |-> content, name |-> Get(obj, "name")])
          [] type \in {Str("ToolMessage"), Str("tool")} ->
                NewMessage("ToolMessage",
                           [content |-> content, tool_call_id |-> Get(obj, "tool_call_id")])
          [] type \in {Str("AIMessage"), Str("ai")} ->
                NewMessage("AIMessage", [content |-> content])
          [] type = Str("HumanMessageChunk") ->
                NewMessage("HumanMessageChunk", [content |-> content])
          [] type = Str("SystemMessageChunk") ->
                NewMessage("SystemMessageChunk", [content |-> content])
          [] type = Str("ChatMessageChunk") ->
                NewMessage("ChatMessageChunk", [content |-> content, role |-> Get(obj, "role")])
          [] type = Str("FunctionMessageChunk") ->
                NewMessage("FunctionMessageChunk",
                           [content |-> content, name |-> Get(obj, "name")])
          [] type = Str("ToolMessageChunk") ->
                NewMessage("ToolMessageChunk",
                           [content |-> content, tool_call_id |-> Get(obj, "tool_call_id")])
          [] type = Str("AIMessageChunk") ->
                NewMessage("AIMessageChunk", [content |-> content])
          [] OTHER -> NoMatch

\* the generation branch (lines 140-165), message being revive(obj.message)
ReviveGeneration(obj, message) ==
    LET type == Get(obj, "type")
        text == Get(obj, "text")
        info == Get(obj, "generation_info")
    IN  CASE type = Str("ChatGenerationChunk") ->
                IF message = Thrown THEN Thrown
                ELSE Inst("ChatGenerationChunk",
                          [message |-> message, text |-> text, generationInfo |-> info])
          [] type = Str("ChatGeneration") ->
                IF message = Thrown THEN Thrown
                ELSE Obj([message |-> message, text |-> text, generationInfo |-> info])
          [] type = Str("GenerationChunk") ->
                Inst("GenerationChunk", [text |-> text, generationInfo |-> info])
          [] type = Str("Generation") ->
                Obj([text |-> text, generationInfo |-> info])
          [] OTHER -> NoMatch

\* the name of the member RUN_KEY
RunKey == "__run"

\* revive (remote.ts lines 50-213)
RECURSIVE Revive(_)
Revive(obj) ==
    IF obj.t = "arr"
    THEN MapOf([i \in DOMAIN obj.items |-> Revive(obj.items[i])])
    ELSE IF obj.t \in {"null", "date"} THEN obj
    ELSE IF obj.t # "obj" THEN obj
    ELSE
    LET keys == DOMAIN obj.m
        type == Get(obj, "type")
        asMessage ==
            IF IsSuperset(keys, {"content", "type", "additional_kwargs"})
            THEN ReviveMessage(obj) ELSE NoMatch
        asGeneration ==
            IF IsSuperset(keys, {"text", "generation_info", "type"})
            THEN ReviveGeneration(obj, Revive(Get(obj, "message"))) ELSE NoMatch
        asAgentAction ==
            IF IsSuperset(keys, {"tool", "tool_input", "log", "type"})
               /\ type = Str("AgentAction")
            THEN Obj([tool |-> Get(obj, "tool"), toolInput |-> Get(obj, "tool_input"),
                      log |-> Get(obj, "log")])
            ELSE NoMatch
        asAgentFinish ==
            IF IsSuperset(keys, {"return_values", "log", "type"})
               /\ type = Str("AgentFinish")
            THEN Obj([returnValues |-> Get(obj, "return_values"), log |-> Get(obj, "log")])
            ELSE NoMatch
        asLLMResult ==
            IF IsSuperset(keys, {"generations", "run", "type"})
               /\ type = Str("LLMResult")
            THEN LET generations == Revive(Get(obj, "generations"))
                 IN  IF generations = Thrown THEN Thrown
                     ELSE Obj((RunKey :> Get(obj, "run")) @@
                              [generations |-> generations,
                               llmOutput |-> Get(obj, "llm_output")])
            ELSE NoMatch
    IN  IF IsSuperset(keys, {"page_content", "metadata"})
        THEN NewDocument(Get(obj, "page_content"), Get(obj, "metadata"))
        ELSE IF asMessage # NoMatch THEN asMessage
        ELSE IF asGeneration # NoMatch THEN asGeneration
        ELSE IF asAgentAction # NoMatch THEN asAgentAction
        ELSE IF asAgentFinish # NoMatch THEN asAgentFinish
        ELSE IF asLLMResult # NoMatch THEN asLLMResult
        ELSE IF IsSuperset(keys, {"messages"})
        THEN LET messages == Get(obj, "messages")
                 revived  == IF messages.t = "arr"
                             THEN MapOf([i \in DOMAIN messages.items |->
                                             Revive(messages.items[i])])
                             ELSE Thrown
             IN  IF revived = Thrown THEN Thrown
                 ELSE Inst("ChatPromptValue", [messages |-> revived])
        ELSE IF IsSuperset(keys, {"text"})
        THEN Inst("StringPromptValue", [value |-> Get(obj, "text")])
        ELSE EntriesOf([k \in DOMAIN obj.m |-> Revive(obj.m[k])])

\* the branch of revive that returns for a mapping: a signature's branch
\* returns only if the type is one it knows, and falls through otherwise
ReviveBranch(obj) ==
    LET keys == DOMAIN obj.m
        type == Get(obj, "type")
    IN  IF IsSuperset(keys, {"page_content", "metadata"}) THEN "document"
        ELSE IF IsSuperset(keys, {"content", "type", "additional_kwargs"})
                /\ ReviveMessage(obj) # NoMatch THEN "message"
        ELSE IF IsSuperset(keys, {"text", "generation_info", "type"})
                /\ ReviveGeneration(obj, Null) # NoMatch THEN "generation"
        ELSE IF IsSuperset(keys, {"tool", "tool_input", "log", "type"})
                /\ type = Str("AgentAction") THEN "agent action"
        ELSE IF IsSuperset(keys, {"return_values", "log", "type"})
                /\ type = Str("AgentFinish") THEN "agent finish"
        ELSE IF IsSuperset(keys, {"generations", "run", "type"})
                /\ type = Str("LLMResult") THEN "LLM result"
        ELSE IF IsSuperset(keys, {"messages"}) THEN "chat prompt value"
        ELSE IF IsSuperset(keys, {"text"}) THEN "plain-text prompt value"
        ELSE "generic"

(***************************************************************************)
(* Bounds and the inputs the engine draws from                             *)
(***************************************************************************)
\* run ids the engine hands out, in creation order: 1..MaxRuns
MaxRuns == 4

\* patches the channel holds before the engine stops notifying
MaxQueue == 5

\* RunLog objects built in the patch-algebra specification
MaxLogs == 3

RunIds == 1..MaxRuns

\* a run id the engine never creates
StrayId == MaxRuns + 1

\* an optional string[] field: undefined, or the set of its elements
Unset == [def |-> FALSE, s |-> {}]

ListOf(s) == [def |-> TRUE, s |-> s]

Includes(list, x) == x \in list.s

Filter(inN, inTy, inTa, exN, exTy, exTa) ==
    [includeNames |-> inN, includeTypes |-> inTy, includeTags |-> inTa,
     excludeNames |-> exN, excludeTypes |-> exTy, excludeTags |-> exTa]

Fields(filter, autoClose, schemaFormat) ==
    [autoClose |-> autoClose, _schemaFormat |-> schemaFormat,
     includeNames |-> filter.includeNames, includeTypes |-> filter.includeTypes,
     includeTags |-> filter.includeTags, excludeNames |-> filter.excludeNames,
     excludeTypes |-> filter.excludeTypes, excludeTags |-> filter.excludeTags]

SchemaFormats == {"original", "streaming_events"}

\* the filters the tracer specification is run with: none, and one that
\* includes by name or tag and excludes by type
TracerFilters ==
    { Filter(Unset, Unset, Unset, Unset, Unset, Unset),
      Filter(ListOf({<<"a:2">>}), Unset, ListOf({"my_tag"}), Unset, ListOf({"llm"}), Unset),
      Filter(Unset, Unset, Unset, Unset, ListOf({"llm"}), Unset) }

Absent == [def |-> FALSE, v |-> 0]

Present(v) == [def |-> TRUE, v |-> v]

NoOutputs == [def |-> FALSE, m |-> <<>>]

Outputs(m) == [def |-> TRUE, m |-> m]

\* a Run as the engine passes it to a lifecycle notification
Run(id, name, type, tags, inputs) ==
    [id |-> id, name |-> name, run_type |-> type, tags |-> tags,
     metadata |-> <<>>, inputs |-> inputs, outputs |-> NoOutputs,
     start_time |-> 1, end_time |-> Absent]

Completion(outputs, end_time) == [outputs |-> outputs, end_time |-> end_time]

\* the runs the engine executes: each is a run as it starts and the outputs
\* and end time it completes with
RunProfiles ==
    { [run |-> Run(0, <<"a">>, "chain", <<>>, "input" :> "hello"),
       completes |-> Completion(Outputs("output" :> "olleh"), Present(2))],
      [run |-> Run(0, <<"a">>, "llm", <<"my_tag">>, "messages" :> "hi"),
       completes |-> Completion(NoOutputs, Absent)],
      [run |-> Run(0, <<"a:2">>, "chain", <<>>, "input" :> ""),
       completes |-> Completion(Outputs("output" :> "olleh"), Absent)],
      [run |-> Run(0, <<"a", "b">>, "tool", <<"my_tag">>, "q" :> "x"),
       completes |-> Completion(Outputs(("x" :> "1") @@ ("y" :> "2")), Present(2))] }

\* the runs the engine starts first, as the root
RootProfiles ==
    { [run |-> Run(0, <<"a">>, "chain", <<>>, "input" :> "hello"),
       completes |-> Completion(Outputs("output" :> "olleh"), Present(2))] }

\* run types whose runs stream tokens (onLLMNewToken)
ModelTypes == {"llm", "chat_model"}

Tokens == {"x"}

\* kwargs.chunk of a token notification: none, a ChatGenerationChunk (carries
\* a message) or a GenerationChunk
ChunkKinds == {"none", "chat", "text"}

TapChunks == {"c"}

(***************************************************************************)
(* Strings                                                                 *)
(***************************************************************************)
\* a string kept by its "/"-separated segments, as one string
RECURSIVE JoinSegments(_)
JoinSegments(segs) ==
    IF Len(segs) = 1 THEN segs[1]
    ELSE segs[1] \o "/" \o JoinSegments(Tail(segs))

\* `${name}:${count}`
WithCount(name, count) ==
    [name EXCEPT ![Len(name)] = @ \o ":" \o ToString(count)]

\* new Date(t).toISOString()
ToISOString(t) == "1970-01-01T00:00:00.00" \o ToString(t) \o "Z"

IdString(id) == "run-" \o ToString(id)

UndefinedValue == Scalar(UndefNode)

StringValue(s) == Scalar(StrNode(s))

\* the member of a mapping that is present with the value undefined
Undefined == "$undefined"

\* a member's value as a JSON value
ValueOf(v) == IF v = Undefined THEN UndefinedValue ELSE StringValue(v)

\* a Record<string, any> as a JSON value
MappingValue(m) == ObjectOf([k \in DOMAIN m |-> ValueOf(m[k])])

ArrayValue(items) == Scalar(ArrNode(items))

(***************************************************************************)
(* Standardization                                                         *)
(***************************************************************************)
PassThroughTypes == {"retriever", "llm", "prompt"}

\* faulty variant of _getStandardizedInputs: the original format passes the
\* inputs through
StandardizedInputsNoThrow(run, schemaFormat) ==
    [threw |-> FALSE, value |-> MappingValue(run.inputs)]

\* [threw |-> TRUE] or the value returned
StandardizedInputs(run, schemaFormat) ==
    IF schemaFormat = "original" THEN [threw |-> TRUE, value |-> UndefinedValue]
    ELSE IF run.run_type \in PassThroughTypes
    THEN [threw |-> FALSE, value |-> MappingValue(run.inputs)]
    ELSE IF Cardinality(DOMAIN run.inputs) = 1 /\ "input" \in DOMAIN run.inputs
            /\ run.inputs["input"] = ""
    THEN [threw |-> FALSE, value |-> UndefinedValue]
    ELSE IF "input" \in DOMAIN run.inputs
    THEN [threw |-> FALSE, value |-> ValueOf(run.inputs["input"])]
    ELSE [threw |-> FALSE, value |-> UndefinedValue]

\* faulty variant of _getStandardizedOutputs: unwraps whenever there is a
\* member named output
StandardizedOutputsAlwaysUnwrap(run, schemaFormat) ==
    IF ~run.outputs.def THEN UndefinedValue
    ELSE IF schemaFormat = "original" THEN MappingValue(run.outputs.m)
    ELSE IF run.run_type \in PassThroughTypes THEN MappingValue(run.outputs.m)
    ELSE IF "output" \in DOMAIN run.outputs.m
    THEN ValueOf(run.outputs.m["output"])
    ELSE MappingValue(run.outputs.m)

StandardizedOutputs(run, schemaFormat) ==
    IF ~run.outputs.def THEN UndefinedValue
    ELSE IF schemaFormat = "original" THEN MappingValue(run.outputs.m)
    ELSE IF run.run_type \in PassThroughTypes THEN MappingValue(run.outputs.m)
    ELSE IF Cardinality(DOMAIN run.outputs.m) = 1 /\ "output" \in DOMAIN run.outputs.m
            /\ run.outputs.m["output"] # Undefined
    THEN ValueOf(run.outputs.m["output"])
    ELSE MappingValue(run.outputs.m)

\* x !== undefined && x.message !== undefined
IsChatGenerationChunk(chunkKind) == chunkKind = "chat"

(***************************************************************************)
(* The run-inclusion filter                                                *)
(***************************************************************************)
TagsOf(run) == {run.tags[i] : i \in DOMAIN run.tags}

\* faulty variant of the include phase: every configured set has to match
IncludePhaseEverySet(c, run) ==
    /\ c.includeNames.def => Includes(c.includeNames, run.name)
    /\ c.includeTypes.def => Includes(c.includeTypes, run.run_type)
    /\ c.includeTags.def => \E t \in TagsOf(run) : Includes(c.includeTags, t)

\* lines 353-367: the include decision before exclusion
IncludePhase(c, run) ==
    LET i0 == ~c.includeNames.def /\ ~c.includeTags.def /\ ~c.includeTypes.def
        i1 == IF c.includeNames.def
              THEN i0 \/ Includes(c.includeNames, run.name) ELSE i0
        i2 == IF c.includeTypes.def
              THEN i1 \/ Includes(c.includeTypes, run.run_type) ELSE i1
        i3 == IF c.includeTags.def
              THEN i2 \/ (\E t \in TagsOf(run) : Includes(c.includeTags, t)) ELSE i2
    IN  i3

\* faulty variant of the exclude phase: vetoes only if every tag is excluded
ExcludePhaseEveryTag(include, c, run) ==
    LET e1 == IF c.excludeNames.def
              THEN include /\ ~Includes(c.excludeNames, run.name) ELSE include
        e2 == IF c.excludeTypes.def
              THEN e1 /\ ~Includes(c.excludeTypes, run.run_type) ELSE e1
        e3 == IF c.excludeTags.def
              THEN e2 /\ ~(\A t \in TagsOf(run) : Includes(c.excludeTags, t)) ELSE e2
    IN  e3

\* lines 368-377: the exclude sets applied to the include decision
ExcludePhase(include, c, run) ==
    LET e1 == IF c.excludeNames.def
              THEN include /\ ~Includes(c.excludeNames, run.name) ELSE include
        e2 == IF c.excludeTypes.def
              THEN e1 /\ ~Includes(c.excludeTypes, run.run_type) ELSE e1
        e3 == IF c.excludeTags.def
              THEN e2 /\ (\A t \in TagsOf(run) : ~Includes(c.excludeTags, t)) ELSE e2
    IN  e3

\* faulty variant of _includeRun: the root is filtered like any other run
IncludeRunNoRootCheck(c, root, run) ==
    ExcludePhase(IncludePhase(c, run), c, run)

IncludeRun(c, root, run) ==
    IF run.id = root THEN FALSE
    ELSE ExcludePhase(IncludePhase(c, run), c, run)

(***************************************************************************)
(* LogStreamCallbackHandler                                                *)
(***************************************************************************)
\* faulty variant of the root value: the document starts without its log map
RootValueNoLogs(run) ==
    ObjectOf([id |-> StringValue(IdString(run.id)),
              streamed_output |-> ArrayValue(<<>>),
              final_output |-> UndefinedValue])

\* the value of the root `replace` op (lines 419-426)
RootValue(run) ==
    ObjectOf([id |-> StringValue(IdString(run.id)),
              name |-> StringValue(JoinSegments(run.name)),
              type |-> StringValue(run.run_type),
              streamed_output |-> ArrayValue(<<>>),
              final_output |-> UndefinedValue,
              logs |-> EmptyDoc])

\* the LogEntry of lines 445-460
LogEntryValue(run, schemaFormat) ==
    LET base == [id |-> StringValue(IdString(run.id)),
                 name |-> StringValue(JoinSegments(run.name)),
                 type |-> StringValue(run.run_type),
                 tags |-> ArrayValue(run.tags),
                 metadata |-> MappingValue(run.metadata),
                 start_time |-> StringValue(ToISOString(run.start_time)),
                 streamed_output |-> ArrayValue(<<>>),
                 streamed_output_str |-> ArrayValue(<<>>),
                 final_output |-> UndefinedValue,
                 end_time |-> UndefinedValue]
    IN  IF schemaFormat = "streaming_events"
        THEN ObjectOf(("inputs" :> StandardizedInputs(run, schemaFormat).value) @@ base)
        ELSE ObjectOf(base)

\* faulty variant of the key: the suffix is one ahead of the count
KeyForNextCount(name, count) ==
    IF count = 1 THEN name ELSE WithCount(name, count + 1)

\* count === 1 ? run.name : `${run.name}:${count}`
KeyFor(name, count) == IF count = 1 THEN name ELSE WithCount(name, count)

\* `/logs/${key}` followed by the given segments
LogPath(key, rest) == <<"logs">> \o key \o rest

\* faulty variant of the write: a patch written after close is dropped
WriterWriteDropsAfterClose(q, isClosed, patch) ==
    IF isClosed THEN [threw |-> FALSE, queue |-> q]
    ELSE [threw |-> FALSE, queue |-> Append(q, patch)]

\* this.writer.write(patch): rejects once the writer is closed
WriterWrite(q, isClosed, patch) ==
    IF isClosed THEN [threw |-> TRUE, queue |-> q]
    ELSE [threw |-> FALSE, queue |-> Append(q, patch)]

NoWrite(q) == [threw |-> FALSE, queue |-> q]

Notification(op, id, threw) == [op |-> op, id |-> id, threw |-> threw]

HasKey(id) == id \in DOMAIN keyMapByRunId

CounterOf(name) ==
    IF name \in DOMAIN counterMapByRunName THEN counterMapByRunName[name] ELSE 0

\* faulty variant of onRunCreate: the name is counted before the filter is asked
OnRunCreateCountsAll(run) ==
    LET first   == rootId = 0
        root1   == IF first THEN run.id ELSE rootId
        w1      == IF first
                   THEN WriterWrite(queue, closed,
                            RunLogPatch(<<MkOp("replace", <<>>, RootValue(run))>>))
                   ELSE NoWrite(queue)
        include == IncludeRun(cfg, root1, run)
        count   == CounterOf(run.name) + 1
        key     == KeyFor(run.name, count)
        w2      == WriterWrite(w1.queue, closed,
                       RunLogPatch(<<MkOp("add", LogPath(key, <<>>),
                                          LogEntryValue(run, cfg._schemaFormat))>>))
    IN  /\ rootId' = root1
        /\ IF w1.threw
           THEN /\ UNCHANGED <<counterMapByRunName, keyMapByRunId>>
                /\ queue' = w1.queue
                /\ last' = Notification("create", run.id, w1.threw)
           ELSE /\ counterMapByRunName' = (run.name :> count) @@ counterMapByRunName
                /\ IF include
                   THEN /\ keyMapByRunId' = (run.id :> key) @@ keyMapByRunId
                        /\ queue' = w2.queue
                        /\ last' = Notification("create", run.id, w2.threw)
                   ELSE /\ keyMapByRunId' = keyMapByRunId
                        /\ queue' = w1.queue
                        /\ last' = Notification("create", run.id, FALSE)
        /\ UNCHANGED <<cfg, closed>>

OnRunCreate(run) ==
    LET first   == rootId = 0
        root1   == IF first THEN run.id ELSE rootId
        w1      == IF first
                   THEN WriterWrite(queue, closed,
                            RunLogPatch(<<MkOp("replace", <<>>, RootValue(run))>>))
                   ELSE NoWrite(queue)
        include == IncludeRun(cfg, root1, run)
        count   == CounterOf(run.name) + 1
        key     == KeyFor(run.name, count)
        w2      == WriterWrite(w1.queue, closed,
                       RunLogPatch(<<MkOp("add", LogPath(key, <<>>),
                                          LogEntryValue(run, cfg._schemaFormat))>>))
    IN  /\ rootId' = root1
        /\ IF w1.threw \/ ~include
           THEN /\ UNCHANGED <<counterMapByRunName, keyMapByRunId>>
                /\ queue' = w1.queue
                /\ last' = Notification("create", run.id, w1.threw)
           ELSE /\ counterMapByRunName' = (run.name :> count) @@ counterMapByRunName
                /\ keyMapByRunId' = (run.id :> key) @@ keyMapByRunId
                /\ queue' = w2.queue
                /\ last' = Notification("create", run.id, w2.threw)
        /\ UNCHANGED <<cfg, closed>>

\* faulty variant of the ops: the end time comes before the final output
UpdateOpsEndTimeFirst(run, runName, schemaFormat) ==
    (IF schemaFormat = "streaming_events"
     THEN <<MkOp("replace", LogPath(runName, <<"inputs">>),
                 StandardizedInputs(run, schemaFormat).value)>>
     ELSE <<>>)
    \o (IF run.end_time.def
        THEN <<MkOp("add", LogPath(runName, <<"end_time">>),
                    StringValue(ToISOString(run.end_time.v)))>>
        ELSE <<>>)
    \o <<MkOp("add", LogPath(runName, <<"final_output">>),
              StandardizedOutputs(run, schemaFormat))>>

\* the ops of lines 481-500
UpdateOps(run, runName, schemaFormat) ==
    (IF schemaFormat = "streaming_events"
     THEN <<MkOp("replace", LogPath(runName, <<"inputs">>),
                 StandardizedInputs(run, schemaFormat).value)>>
     ELSE <<>>)
    \o <<MkOp("add", LogPath(runName, <<"final_output">>),
              StandardizedOutputs(run, schemaFormat))>>
    \o (IF run.end_time.def
        THEN <<MkOp("add", LogPath(runName, <<"end_time">>),
                    StringValue(ToISOString(run.end_time.v)))>>
        ELSE <<>>)

\* faulty variant of onRunUpdate: the root's completion closes the channel
\* whatever autoClose says
OnRunUpdateAlwaysCloses(run) ==
    LET w1 == IF HasKey(run.id)
              THEN WriterWrite(queue, closed,
                       RunLogPatch(UpdateOps(run, keyMapByRunId[run.id],
                                             cfg._schemaFormat)))
              ELSE NoWrite(queue)
        isRoot == run.id = rootId
        w2 == IF isRoot
              THEN WriterWrite(w1.queue, closed,
                       RunLogPatch(<<MkOp("replace", <<"final_output">>,
                                          StandardizedOutputs(run, cfg._schemaFormat))>>))
              ELSE NoWrite(w1.queue)
    IN  /\ queue' = w2.queue
        /\ closed' = IF isRoot /\ ~w2.threw THEN TRUE ELSE closed
        /\ last' = Notification("update", run.id, w1.threw \/ w2.threw)
        /\ UNCHANGED <<cfg, rootId, keyMapByRunId, counterMapByRunName>>

OnRunUpdate(run) ==
    LET w1 == IF HasKey(run.id)
              THEN WriterWrite(queue, closed,
                       RunLogPatch(UpdateOps(run, keyMapByRunId[run.id],
                                             cfg._schemaFormat)))
              ELSE NoWrite(queue)
        \* the finally block runs whether or not the try block threw
        isRoot == run.id = rootId
        w2 == IF isRoot
              THEN WriterWrite(w1.queue, closed,
                       RunLogPatch(<<MkOp("replace", <<"final_output">>,
                                          StandardizedOutputs(run, cfg._schemaFormat))>>))
              ELSE NoWrite(w1.queue)
    IN  /\ queue' = w2.queue
        /\ closed' = IF isRoot /\ ~w2.threw /\ cfg.autoClose THEN TRUE ELSE closed
        /\ last' = Notification("update", run.id, w1.threw \/ w2.threw)
        /\ UNCHANGED <<cfg, rootId, keyMapByRunId, counterMapByRunName>>

\* kwargs.chunk as a value: the chunk the engine supplied for the token
ChunkValue(token, chunkKind) ==
    CASE chunkKind = "chat" -> "ChatGenerationChunk(" \o token \o ")"
      [] chunkKind = "text" -> "GenerationChunk(" \o token \o ")"
      [] OTHER -> Undefined

\* run.inputs.messages !== undefined
IsChatModel(run) ==
    IF "messages" \in DOMAIN run.inputs THEN run.inputs["messages"] # Undefined ELSE FALSE

\* faulty variant of the chunk value: a chat-style run always gets a wrapped token
StreamedOutputValueWraps(run, token, chunkKind) ==
    IF IsChatModel(run) THEN "AIMessageChunk(" \o token \o ")" ELSE token

\* the value appended to streamed_output (lines 532-542)
StreamedOutputValue(run, token, chunkKind) ==
    IF IsChatModel(run)
    THEN IF IsChatGenerationChunk(chunkKind)
         THEN ChunkValue(token, chunkKind)
         ELSE "AIMessageChunk(" \o token \o ")"
    ELSE token

\* faulty variant of onLLMNewToken: no lookup, the run's name is the key
OnLLMNewTokenNoLookup(run, token, chunkKind) ==
    LET w == WriterWrite(queue, closed,
                RunLogPatch(<<
                  MkOp("add", LogPath(run.name, <<"streamed_output_str", "-">>),
                       StringValue(token)),
                  MkOp("add", LogPath(run.name, <<"streamed_output", "-">>),
                       StringValue(StreamedOutputValue(run, token, chunkKind)))>>))
    IN  /\ queue' = w.queue
        /\ last' = Notification("token", run.id, w.threw)
        /\ UNCHANGED <<cfg, rootId, keyMapByRunId, counterMapByRunName, closed>>

OnLLMNewToken(run, token, chunkKind) ==
    LET w == IF HasKey(run.id)
             THEN WriterWrite(queue, closed,
                    RunLogPatch(<<
                      MkOp("add", LogPath(keyMapByRunId[run.id], <<"streamed_output_str", "-">>),
                           StringValue(token)),
                      MkOp("add", LogPath(keyMapByRunId[run.id], <<"streamed_output", "-">>),
                           StringValue(StreamedOutputValue(run, token, chunkKind)))>>))
             ELSE NoWrite(queue)
    IN  /\ queue' = w.queue
        /\ last' = Notification("token", run.id, w.threw)
        /\ UNCHANGED <<cfg, rootId, keyMapByRunId, counterMapByRunName, closed>>

\* faulty variant of the loop body: the chunk is passed on but never written
TapOutputIterableSilent(runId, chunk) ==
    /\ queue' = queue
    /\ last' = Notification("tap", runId, FALSE)
    /\ UNCHANGED <<cfg, rootId, keyMapByRunId, counterMapByRunName, closed>>

\* one iteration of the for-await loop of tapOutputIterable
TapOutputIterable(runId, chunk) ==
    LET w == IF runId # rootId /\ HasKey(runId)
                /\ JoinSegments(keyMapByRunId[runId]) # ""
             THEN WriterWrite(queue, closed,
                    RunLogPatch(<<MkOp("add",
                        LogPath(keyMapByRunId[runId], <<"streamed_output", "-">>),
                        StringValue(chunk))>>))
             ELSE NoWrite(queue)
    IN  /\ queue' = w.queue
        /\ last' = Notification("tap", runId, w.threw)
        /\ UNCHANGED <<cfg, rootId, keyMapByRunId, counterMapByRunName, closed>>

(***************************************************************************)
(* The execution engine: it creates runs, streams their tokens and chunks  *)
(* and completes them; for one run id, creation comes before every chunk   *)
(* and completion comes last.  Notifications of different runs interleave. *)
(***************************************************************************)
\* the consumer folds each patch the channel accepted into its RunLog
\* (log = log.concat(patch)); a patch that does not apply leaves it failed
Consume ==
    materialized' =
        IF Len(queue') = Len(queue) THEN materialized
        ELSE IF Failed(materialized) THEN Fail
        ELSE LastNewDocument(ApplyPatch(materialized, queue'[Len(queue')].ops))

NoCompletion == Completion(NoOutputs, Absent)

Unseen == [st |-> "unseen", run |-> Run(0, <<"">>, "", <<>>, <<>>),
           completes |-> NoCompletion]

Created == {r \in RunIds : runs[r].st # "unseen"}

Running == {r \in RunIds : runs[r].st = "running"}

\* a run the engine never announced
StrayRun == Run(StrayId, <<"a">>, "llm", <<>>, "input" :> "hello")

RunOf(r) == IF r = StrayId THEN StrayRun ELSE runs[r].run

CompletionOf(r) == IF r = StrayId THEN NoCompletion ELSE runs[r].completes

NotifyRunCreate ==
    /\ Len(queue) < MaxQueue
    /\ UNCHANGED <<heap, lastLog, probe, std, wire, received, ended, extVars>>
    /\ Cardinality(Created) < MaxRuns
    /\ \E p \in (IF rootId = 0 THEN RootProfiles ELSE RunProfiles) :
        LET run == [p.run EXCEPT !.id = Cardinality(Created) + 1] IN
        /\ OnRunCreate(run)
        /\ runs' = [runs EXCEPT ![run.id] =
                        [st |-> "running", run |-> run, completes |-> p.completes]]
    /\ Consume

NotifyLLMNewToken ==
    /\ Len(queue) < MaxQueue
    /\ UNCHANGED <<heap, lastLog, probe, std, wire, received, ended, extVars>>
    /\ \E r \in {x \in Running : runs[x].run.run_type \in ModelTypes} \cup {StrayId},
          token \in Tokens, chunkKind \in ChunkKinds :
        OnLLMNewToken(RunOf(r), token, chunkKind)
    /\ UNCHANGED runs
    /\ Consume

TapChunk ==
    /\ Len(queue) < MaxQueue
    /\ UNCHANGED <<heap, lastLog, probe, std, wire, received, ended, extVars>>
    /\ \E r \in Running \cup {StrayId}, chunk \in TapChunks :
        TapOutputIterable(r, chunk)
    /\ UNCHANGED runs
    /\ Consume

NotifyRunUpdate ==
    /\ Len(queue) < MaxQueue
    /\ UNCHANGED <<heap, lastLog, probe, std, wire, received, ended, extVars>>
    /\ \E r \in Running \cup {StrayId} :
        LET c   == CompletionOf(r)
            run == [RunOf(r) EXCEPT !.outputs = c.outputs, !.end_time = c.end_time] IN
        /\ OnRunUpdate(run)
        /\ runs' = IF r = StrayId THEN runs
                   ELSE [runs EXCEPT ![r].st = "done", ![r].run = run]
    /\ Consume

NoLog == RunLog(<<>>, EmptyDoc)

NoCall == [op |-> "none", this |-> 0, other |-> RunLogPatch(<<>>), ok |-> TRUE]

NoProbe == [done |-> FALSE, run |-> StrayRun, include |-> FALSE, result |-> FALSE]

NoStd == [done |-> FALSE, op |-> "none", run |-> StrayRun,
          threw |-> FALSE, value |-> UndefinedValue, token |-> "", chunk |-> "none"]

NoWire == [op |-> "none", x |-> Undef, sent |-> Undef, prev |-> Undef, got |-> Undef]

\* no response yet; body is the number of data messages of the response's
\* body, -1 when the response has no body
NoResponse == [ok |-> TRUE, status |-> 0, message |-> "", body |-> -1, output |-> FALSE]

NoRemote == [op |-> "none", returnExceptions |-> "undefined", at |-> "idle", path |-> "",
             requests |-> 0, response |-> NoResponse, error |-> "", yielded |-> 0]

\* no generator started: output is the tapped iterable's chunks, pulled the
\* number of them the generator has taken, yielded the chunks it has yielded
NoTap == [at |-> "idle", runId |-> 0, output |-> <<>>, pulled |-> 0, yielded |-> <<>>]

\* flow control off: no bound enforced, no write pending, nobody suspended
NoChan == [bound |-> 0, pending |-> <<>>, suspended |-> {}, reading |-> FALSE]

Init ==
    /\ cfg \in {Fields(f, ac, sf) : f \in TracerFilters, ac \in BOOLEAN, sf \in SchemaFormats}
    /\ rootId = 0
    /\ keyMapByRunId = <<>>
    /\ counterMapByRunName = <<>>
    /\ queue = <<>>
    /\ closed = FALSE
    /\ materialized = EmptyDoc
    /\ received = <<>>
    /\ ended = FALSE
    /\ runs = [r \in RunIds |-> Unseen]
    /\ last = Notification("none", 0, FALSE)
    /\ heap = <<>>
    /\ lastLog = NoCall
    /\ probe = NoProbe
    /\ std = NoStd
    /\ wire = NoWire
    /\ events = <<>>
    /\ remote = NoRemote
    /\ chan = NoChan
    /\ tap = NoTap

Next ==
    \/ NotifyRunCreate
    \/ NotifyLLMNewToken
    \/ TapChunk
    \/ NotifyRunUpdate

Spec == Init /\ [][Next]_vars

(***************************************************************************)
(* The tracer with its consumer: the handler is iterated with for await,   *)
(* each read takes the oldest patch of receiveStream that is still unread  *)
(* and returns done once the writer is closed and nothing is left.         *)
(***************************************************************************)
\* faulty variant of the read: the newest unread patch comes first
ConsumerReadNewest ==
    /\ ~ended
    /\ IF Len(received) < Len(queue)
       THEN /\ received' = Append(received, queue[Len(queue)])
            /\ ended' = ended
       ELSE /\ closed
            /\ ended' = TRUE
            /\ received' = received
    /\ UNCHANGED <<cfg, rootId, keyMapByRunId, counterMapByRunName, queue,
                   closed, materialized, runs, last, heap, lastLog, probe, std, wire, extVars>>

ConsumerRead ==
    /\ ~ended
    /\ IF Len(received) < Len(queue)
       THEN /\ received' = Append(received, queue[Len(received) + 1])
            /\ ended' = ended
       ELSE /\ closed
            /\ ended' = TRUE
            /\ received' = received
    /\ UNCHANGED <<cfg, rootId, keyMapByRunId, counterMapByRunName, queue,
                   closed, materialized, runs, last, heap, lastLog, probe, std, wire, extVars>>

\* one tracer with every run included, closing or not on the root's completion
InitChannel ==
    /\ Init
    /\ cfg \in {Fields(Filter(Unset, Unset, Unset, Unset, Unset, Unset), ac, "original") :
                    ac \in BOOLEAN}

NextChannel ==
    \/ NotifyRunCreate
    \/ NotifyLLMNewToken
    \/ TapChunk
    \/ NotifyRunUpdate
    \/ ConsumerRead

\* the consumer keeps reading
SpecChannel == InitChannel /\ [][NextChannel]_vars /\ WF_vars(ConsumerRead)

(***************************************************************************)
(* The patch algebra on its own: RunLog objects are built from patches by  *)
(* fromRunLogPatch, RunLogPatch.concat and RunLog.concat.                  *)
(***************************************************************************)
RootOp ==
    MkOp("replace", <<>>,
         ObjectOf([streamed_output |-> ArrayValue(<<>>),
                   final_output |-> UndefinedValue, logs |-> EmptyDoc]))

EntryOp ==
    MkOp("add", <<"logs", "a">>, ObjectOf([streamed_output |-> ArrayValue(<<>>)]))

ChunkOp == MkOp("add", <<"logs", "a", "streamed_output", "-">>, StringValue("x"))

FinalOp == MkOp("replace", <<"final_output">>, StringValue("out"))

RemoveOp == MkOp("remove", <<"logs", "a">>, UndefinedValue)

LogOps == {RootOp, EntryOp, ChunkOp, FinalOp, RemoveOp}

\* the patches handed to the calls: no op, one op, and two ops of which the
\* second needs the first (EntryOp, ChunkOp) or may be invalid after it
\* (FinalOp, RemoveOp)
LogPatches ==
    {RunLogPatch(<<>>)} \cup {RunLogPatch(<<o>>) : o \in LogOps}
        \cup {RunLogPatch(<<EntryOp, ChunkOp>>), RunLogPatch(<<FinalOp, RemoveOp>>)}

Call(op, this, other, ok) == [op |-> op, this |-> this, other |-> other, ok |-> ok]

\* the RunLog a call returned joins the heap; a call that threw returns none;
\* `other` is the patch whose ops the call applied
Outcome(op, this, other, result) ==
    /\ heap' = IF result.ok THEN Append(heap, result.log) ELSE heap
    /\ lastLog' = Call(op, this, other, result.ok)

CallFromRunLogPatch ==
    /\ Len(heap) < MaxLogs
    /\ \E patch \in LogPatches : Outcome("fromRunLogPatch", 0, patch, FromRunLogPatch(patch))
    /\ UNCHANGED <<tracerVars, probe, std, wire, extVars>>

CallRunLogPatchConcat ==
    /\ Len(heap) < MaxLogs
    /\ \E this \in LogPatches, other \in LogPatches :
        Outcome("RunLogPatch.concat", 0, RunLogPatch(this.ops \o other.ops),
                RunLogPatchConcat(this, other))
    /\ UNCHANGED <<tracerVars, probe, std, wire, extVars>>

\* the argument is a patch, or a RunLog of the heap (a RunLog is a RunLogPatch)
CallRunLogConcat ==
    /\ Len(heap) < MaxLogs
    /\ \E i \in DOMAIN heap :
        \E other \in LogPatches \cup {RunLogPatch(heap[j].ops) : j \in DOMAIN heap} :
            Outcome("RunLog.concat", i, other, RunLogConcat(heap[i], other))
    /\ UNCHANGED <<tracerVars, probe, std, wire, extVars>>

InitLog ==
    /\ cfg = Fields(Filter(Unset, Unset, Unset, Unset, Unset, Unset), TRUE, "original")
    /\ rootId = 0
    /\ keyMapByRunId = <<>>
    /\ counterMapByRunName = <<>>
    /\ queue = <<>>
    /\ closed = FALSE
    /\ materialized = EmptyDoc
    /\ received = <<>>
    /\ ended = FALSE
    /\ runs = [r \in RunIds |-> Unseen]
    /\ last = Notification("none", 0, FALSE)
    /\ heap = <<>>
    /\ lastLog = NoCall
    /\ probe = NoProbe
    /\ std = NoStd
    /\ wire = NoWire
    /\ events = <<>>
    /\ remote = NoRemote
    /\ chan = NoChan
    /\ tap = NoTap

NextLog ==
    \/ CallFromRunLogPatch
    \/ CallRunLogPatchConcat
    \/ CallRunLogConcat

SpecLog == InitLog /\ [][NextLog]_vars

(***************************************************************************)
(* The filter on its own: _includeRun is called on a handler whose root    *)
(* run has been created, for every filter configuration and run below.     *)
(***************************************************************************)
FilterNameLists ==
    {Unset, ListOf({}), ListOf({<<"1">>}), ListOf({<<"1">>, <<"2">>})}

FilterTypeLists == {Unset, ListOf({}), ListOf({"llm"})}

FilterTagLists ==
    {Unset, ListOf({}), ListOf({"my_tag"}), ListOf({"my_tag", "seq:step:1"})}

AllFilters ==
    { Filter(inN, inTy, inTa, exN, exTy, exTa) :
        inN \in FilterNameLists, inTy \in FilterTypeLists, inTa \in FilterTagLists,
        exN \in FilterNameLists, exTy \in FilterTypeLists, exTa \in FilterTagLists }

FilterRuns ==
    { Run(id, name, type, tags, "input" :> "hello") :
        id \in {1, 2}, name \in {<<"1">>, <<"2">>}, type \in {"chain", "llm"},
        tags \in {<<>>, <<"my_tag">>, <<"seq:step:1">>, <<"seq:step:1", "my_tag">>} }

FilterRoot == Run(1, <<"1">>, "chain", <<>>, "input" :> "hello")

CallIncludeRun ==
    /\ ~probe.done
    /\ \E run \in FilterRuns :
        probe' = [done |-> TRUE, run |-> run,
                  include |-> IncludePhase(cfg, run),
                  result |-> IncludeRun(cfg, rootId, run)]
    /\ UNCHANGED <<tracerVars, heap, lastLog, std, wire, extVars>>

\* the handler after onRunCreate of the root run
InitFilter ==
    /\ cfg \in {Fields(f, TRUE, "original") : f \in AllFilters}
    /\ rootId = FilterRoot.id
    /\ keyMapByRunId = <<>>
    /\ counterMapByRunName = <<>>
    /\ queue = <<RunLogPatch(<<MkOp("replace", <<>>, RootValue(FilterRoot))>>)>>
    /\ closed = FALSE
    /\ materialized = RootValue(FilterRoot)
    /\ received = <<>>
    /\ ended = FALSE
    /\ runs = [r \in RunIds |->
                IF r = FilterRoot.id
                THEN [st |-> "running", run |-> FilterRoot, completes |-> NoCompletion]
                ELSE Unseen]
    /\ last = Notification("create", FilterRoot.id, FALSE)
    /\ heap = <<>>
    /\ lastLog = NoCall
    /\ probe = NoProbe
    /\ std = NoStd
    /\ wire = NoWire
    /\ events = <<>>
    /\ remote = NoRemote
    /\ chan = NoChan
    /\ tap = NoTap

NextFilter == CallIncludeRun

SpecFilter == InitFilter /\ [][NextFilter]_vars

(***************************************************************************)
(* What a consumer of the channel materializes                             *)
(***************************************************************************)
RECURSIVE AllOps(_)
AllOps(q) == IF q = <<>> THEN <<>> ELSE Head(q).ops \o AllOps(Tail(q))

\* the keys under /logs of a document
LogKeys(doc) == {p[2] : p \in {x \in DOMAIN doc : Len(x) = 2 /\ x[1] = "logs"}}

\* the document holds a log entry of run id
HasEntry(doc, id) ==
    \E k \in LogKeys(doc) :
        /\ <<"logs", k, "id">> \in DOMAIN doc
        /\ doc[<<"logs", k, "id">>] = StrNode(IdString(id))

(***************************************************************************)
(* Standardization on its own: _getStandardizedInputs and                  *)
(* _getStandardizedOutputs called with one run under the tracer's format.  *)
(***************************************************************************)
StdTypes == {"chain", "llm", "chat_model", "prompt", "tool", "retriever"}

StdInputs ==
    { <<>>, "input" :> "", "input" :> "hello", "input" :> Undefined, "q" :> "x",
      ("input" :> "hello") @@ ("q" :> "x"), "messages" :> "hi",
      "messages" :> Undefined }

StdOutputs ==
    { NoOutputs, Outputs(<<>>), Outputs("output" :> "olleh"),
      Outputs("output" :> Undefined), Outputs("x" :> "1"),
      Outputs(("output" :> "olleh") @@ ("x" :> "1")) }

StdRuns ==
    { [Run(StrayId, <<"a">>, t, <<>>, i) EXCEPT !.outputs = o] :
          t \in StdTypes, i \in StdInputs, o \in StdOutputs }

CallStandardizedInputs ==
    /\ ~std.done
    /\ \E run \in StdRuns :
        LET r == StandardizedInputs(run, cfg._schemaFormat) IN
        std' = [NoStd EXCEPT !.done = TRUE, !.op = "inputs", !.run = run,
                             !.threw = r.threw, !.value = r.value]
    /\ UNCHANGED <<tracerVars, heap, lastLog, probe, wire, extVars>>

CallStandardizedOutputs ==
    /\ ~std.done
    /\ \E run \in StdRuns :
        std' = [NoStd EXCEPT !.done = TRUE, !.op = "outputs", !.run = run,
                             !.value = StandardizedOutputs(run, cfg._schemaFormat)]
    /\ UNCHANGED <<tracerVars, heap, lastLog, probe, wire, extVars>>

\* the chunk value of onLLMNewToken computed for one run, token and chunk
CallStreamedOutputValue ==
    /\ ~std.done
    /\ \E run \in {x \in StdRuns : x.outputs = NoOutputs}, token \in Tokens \cup {""},
          chunkKind \in ChunkKinds :
        std' = [NoStd EXCEPT !.done = TRUE, !.op = "chunk", !.run = run,
                             !.token = token, !.chunk = chunkKind,
                             !.value = StringValue(StreamedOutputValue(run, token, chunkKind))]
    /\ UNCHANGED <<tracerVars, heap, lastLog, probe, wire, extVars>>

InitStd ==
    /\ Init
    /\ cfg \in {Fields(Filter(Unset, Unset, Unset, Unset, Unset, Unset), TRUE, sf) :
                    sf \in SchemaFormats}

NextStd ==
    \/ CallStandardizedInputs
    \/ CallStandardizedOutputs
    \/ CallStreamedOutputValue

SpecStd == InitStd /\ [][NextStd]_vars

(***************************************************************************)
(* The marshalling protocol on its own: a typed value is serialized and    *)
(* the result revived, or a value in wire form is revived and the result   *)
(* revived again.                                                          *)
(***************************************************************************)
WireContents == {Str("hi"), Str("")}

WireKwargs == {Obj(<<>>), Obj([function_call |-> Str("f")])}

WireNames == {Undef, Str("n")}

\* messages as a caller builds them: every class, with its own extra field
TypedMessages ==
    { Inst(cls,
           (IF GetType(cls) = "generic" THEN "role" :> Str("r")
            ELSE IF GetType(cls) = "tool" THEN "tool_call_id" :> Str("t")
            ELSE <<>>)
           @@ [content |-> c, additional_kwargs |-> k, name |-> n]) :
          cls \in MessageClasses \cup ChunkClasses,
          c \in WireContents, k \in WireKwargs, n \in WireNames }

TypedDocuments ==
    { NewDocument(Str("text"), Obj(<<>>)),
      NewDocument(Str("text"), Obj([source |-> Str("s")])) }

PlainHuman == NewMessage("HumanMessage", [content |-> Str("hi")])

\* the values handed to serialize
TypedValues ==
    TypedMessages \cup TypedDocuments
        \cup { Arr(<<PlainHuman>>), Obj([input |-> PlainHuman]),
               Obj([docs |-> Arr(<<NewDocument(Str("text"), Obj(<<>>))>>)]),
               Obj([a |-> Str("x")]), Str("x"), Null, DateOf("d") }

WireTypes ==
    MessageClasses \cup ChunkClasses
        \cup {"human", "system", "chat", "function", "tool", "ai", "generic"}

WireMessage(type) ==
    Obj([content |-> Str("hi"), type |-> Str(type), additional_kwargs |-> Obj(<<>>),
         name |-> Str("n"), role |-> Str("r"), tool_call_id |-> Str("t"),
         example |-> False])

\* the values handed to revive: plain data as JSON.parse gives it, and dates
WireForms ==
    { WireMessage(type) : type \in WireTypes }
        \cup { Obj([page_content |-> Str("text"), metadata |-> Obj([d |-> DateOf("d")])]),
               Obj([text |-> Str("t"), generation_info |-> Null,
                    type |-> Str("ChatGenerationChunk"),
                    message |-> WireMessage("AIMessageChunk")]),
               Obj([text |-> Str("t"), generation_info |-> Null,
                    type |-> Str("ChatGeneration"), message |-> WireMessage("ai")]),
               Obj([text |-> Str("t"), generation_info |-> Null,
                    type |-> Str("GenerationChunk")]),
               Obj([text |-> Str("t"), generation_info |-> Null,
                    type |-> Str("Generation")]),
               Obj([tool |-> Str("search"), tool_input |-> Str("q"), log |-> Str("l"),
                    type |-> Str("AgentAction")]),
               Obj([return_values |-> Obj([output |-> Str("o")]), log |-> Str("l"),
                    type |-> Str("AgentFinish")]),
               Obj([generations |-> Arr(<<>>), run |-> Null, llm_output |-> Null,
                    type |-> Str("LLMResult")]),
               Obj([messages |-> Arr(<<WireMessage("human")>>)]),
               Obj([messages |-> Str("x")]),
               \* key sets that are supersets of more than one signature
               Obj([page_content |-> Str("text"), metadata |-> Obj(<<>>),
                    content |-> Str("hi"), type |-> Str("human"),
                    additional_kwargs |-> Obj(<<>>)]),
               Obj([text |-> Str("t"), generation_info |-> Null,
                    type |-> Str("Generation"), messages |-> Arr(<<>>)]),
               Obj([messages |-> Arr(<<>>), text |-> Str("t")]),
               \* a generation's key set with a type revive does not know
               Obj([text |-> Str("t"), generation_info |-> Null, type |-> Str("other")]),
               Obj([text |-> Str("t")]),
               Obj([a |-> Str("x")]),
               Obj([at |-> DateOf("d"), none |-> Null,
                    inner |-> Obj([at |-> DateOf("d"), none |-> Null])]),
               Arr(<<Null, DateOf("d"), Arr(<<DateOf("d")>>)>>),
               Null, DateOf("d"), Str("x") }

\* revive(serialize(x))
CallSerializeRevive ==
    /\ wire.op = "none"
    /\ \E x \in TypedValues :
        LET sent == Serialize(x) IN
        wire' = [op |-> "roundtrip", x |-> x, sent |-> sent, prev |-> sent,
                 got |-> Revive(sent)]
    /\ UNCHANGED <<tracerVars, heap, lastLog, probe, std, extVars>>

\* revive(w)
CallRevive ==
    /\ wire.op = "none"
    /\ \E w \in WireForms :
        wire' = [op |-> "revive", x |-> w, sent |-> w, prev |-> w, got |-> Revive(w)]
    /\ UNCHANGED <<tracerVars, heap, lastLog, probe, std, extVars>>

\* revive applied to what revive returned
CallReviveAgain ==
    /\ wire.op = "revive" /\ wire.got # Thrown
    /\ wire' = [wire EXCEPT !.op = "revive again", !.prev = wire.got,
                            !.got = Revive(wire.got)]
    /\ UNCHANGED <<tracerVars, heap, lastLog, probe, std, extVars>>

InitWire ==
    /\ Init
    /\ cfg = Fields(Filter(Unset, Unset, Unset, Unset, Unset, Unset), TRUE, "original")

NextWire ==
    \/ CallSerializeRevive
    \/ CallRevive
    \/ CallReviveAgain

SpecWire == InitWire /\ [][NextWire]_vars

(***************************************************************************)
(* The event stream (streamEvents, version v1).  Its code is not among the *)
(* source files; it is modelled from the specification's section 4.5 and   *)
(* the scenarios of runnable_stream_events.test.ts: at each lifecycle call *)
(* one event is derived for the root run, if the filter lets the root's    *)
(* name, type and tags pass, and one for every run the tracer logs.  The   *)
(* engine runs one unit of work, or a sequence of MaxRuns - 1 steps in     *)
(* which a step starts once its predecessor has produced a chunk.          *)
(***************************************************************************)
\* the filter on the root run's own events
RootEventFilter(c, run) == ExcludePhase(IncludePhase(c, run), c, run)

\* the events yielded at a lifecycle call, after the tracer has handled it
StreamEvents(phase, run, chunk) ==
    LET event == [event |-> "on_" \o run.run_type \o "_" \o phase,
                  name |-> run.name, run_id |-> run.id, tags |-> run.tags,
                  metadata |-> run.metadata, chunk |-> chunk]
    IN  events' = events
            \o (IF run.id = rootId' /\ RootEventFilter(cfg, run) THEN <<event>> ELSE <<>>)
            \o (IF run.id \in DOMAIN keyMapByRunId' THEN <<event>> ELSE <<>>)

EventFilters ==
    { Filter(Unset, Unset, Unset, Unset, Unset, Unset),
      Filter(ListOf({<<"1">>}), Unset, Unset, Unset, Unset, Unset),
      Filter(Unset, Unset, ListOf({"my_tag"}), ListOf({<<"2">>}), Unset, Unset),
      Filter(Unset, Unset, Unset, Unset, Unset, ListOf({"my_tag"})),
      Filter(ListOf({<<"RunnableSequence">>}), ListOf({"llm"}), Unset, Unset, Unset, Unset) }

\* units of output one run streams at most
MaxChunks == 2

\* reverse applied n times to "hello"
Reversed(n) == IF n % 2 = 1 THEN "olleh" ELSE "hello"

\* a run the engine is going to execute, with the number of chunks streamed
Planned(run, output) ==
    [st |-> "unseen", run |-> run, chunks |-> 0,
     completes |-> Completion(Outputs("output" :> output), Present(2))]

\* one unit of work "reverse", or the sequence of the steps "1", "2", ...
\* under the wrapper "RunnableSequence", the steps after the first tagged or not
EventPlans ==
    { [r \in RunIds |->
         Planned(IF r = 1 THEN Run(1, <<"reverse">>, type, <<>>, "input" :> "hello")
                 ELSE Unseen.run, Reversed(1))] : type \in {"chain", "llm"} }
    \cup
    { [r \in RunIds |->
         IF r = 1
         THEN Planned(Run(1, <<"RunnableSequence">>, "chain", <<>>, "input" :> "hello"),
                      Reversed(MaxRuns - 1))
         ELSE Planned(Run(r, <<ToString(r - 1)>>, "chain",
                          <<"seq:step:" \o ToString(r - 1)>>
                              \o (IF tagged /\ r > 2 THEN <<"my_tag">> ELSE <<>>),
                          "input" :> Reversed(r - 2)),
                      Reversed(r - 1))] : tagged \in BOOLEAN }

\* the last run of the plan: the last step of a sequence
LastStep == CHOOSE r \in RunIds : runs[r].run.id = r /\ \A x \in RunIds : runs[x].run.id = x => x <= r

\* the k-th chunk of run r: a step streams what it makes of its input, the
\* wrapper streams the chunks of its last step
ChunkOf(r, k) ==
    runs[IF r = 1 THEN LastStep ELSE r].completes.outputs.m["output"]
        \o (IF k = 1 THEN "" ELSE ToString(k))

\* step r's input is there: the first step's is the wrapper's, a later step's
\* comes with its predecessor's first chunk or with its completion
Fed(r) ==
    IF r <= 2 THEN TRUE ELSE runs[r - 1].chunks > 0 \/ runs[r - 1].st = "done"

EventsRunCreate ==
    /\ \E r \in RunIds :
        /\ r = Cardinality(Created) + 1
        /\ runs[r].run.id = r
        /\ Fed(r)
        /\ OnRunCreate(runs[r].run)
        /\ runs' = [runs EXCEPT ![r].st = "running"]
        /\ StreamEvents("start", runs[r].run, "")
    /\ Consume
    /\ UNCHANGED <<heap, lastLog, probe, std, wire, received, ended, remote, chan, tap>>

\* the run's output is tapped: its next chunk; the wrapper's output is the
\* output of its last step
EventsTapChunk ==
    /\ \E r \in Running :
        /\ runs[r].chunks < (IF r = 1 /\ LastStep # 1 THEN runs[LastStep].chunks
                             ELSE MaxChunks)
        /\ TapOutputIterable(r, ChunkOf(r, runs[r].chunks + 1))
        /\ runs' = [runs EXCEPT ![r].chunks = @ + 1]
        /\ StreamEvents("stream", runs[r].run, ChunkOf(r, runs[r].chunks + 1))
    /\ Consume
    /\ UNCHANGED <<heap, lastLog, probe, std, wire, received, ended, remote, chan, tap>>

\* a run completes: a step when its input has ended, the wrapper last, its
\* output streamed
EventsRunUpdate ==
    /\ \E r \in Running :
        LET c   == runs[r].completes
            run == [runs[r].run EXCEPT !.outputs = c.outputs, !.end_time = c.end_time] IN
        /\ (r = 1 /\ LastStep # 1) =>
              (runs[LastStep].st = "done" /\ runs[1].chunks = runs[LastStep].chunks)
        /\ r > 2 => runs[r - 1].st = "done"
        /\ OnRunUpdate(run)
        /\ runs' = [runs EXCEPT ![r].st = "done", ![r].run = run]
        /\ StreamEvents("end", runs[r].run, "")
    /\ Consume
    /\ UNCHANGED <<heap, lastLog, probe, std, wire, received, ended, remote, chan, tap>>

InitEvents ==
    /\ cfg \in {Fields(f, TRUE, "streaming_events") : f \in EventFilters}
    /\ runs \in EventPlans
    /\ rootId = 0
    /\ keyMapByRunId = <<>>
    /\ counterMapByRunName = <<>>
    /\ queue = <<>>
    /\ closed = FALSE
    /\ materialized = EmptyDoc
    /\ received = <<>>
    /\ ended = FALSE
    /\ last = Notification("none", 0, FALSE)
    /\ heap = <<>>
    /\ lastLog = NoCall
    /\ probe = NoProbe
    /\ std = NoStd
    /\ wire = NoWire
    /\ events = <<>>
    /\ remote = NoRemote
    /\ chan = NoChan
    /\ tap = NoTap

NextEvents ==
    \/ EventsRunCreate
    \/ EventsTapChunk
    \/ EventsRunUpdate

SpecEvents == InitEvents /\ [][NextEvents]_vars

(***************************************************************************)
(* RemoteRunnable (remote.ts): batch, stream and streamLog.  A call runs   *)
(* to its request, waits for the server's response and goes on from it;    *)
(* remote records the call made last: where it is, the requests it has     *)
(* sent, the response it got, the error it raised and the units it has     *)
(* yielded.                                                                *)
(***************************************************************************)

\* the largest number of data messages in a response body
MaxUnits == 2

nonRemoteVars == <<cfg, rootId, keyMapByRunId, counterMapByRunName, queue, closed,
                   materialized, received, ended, runs, last, heap, lastLog, probe,
                   std, wire, events, chan, tap>>

\* batchOptions?.returnExceptions as the caller passes it
ReturnExceptions == {"undefined", "false", "true"}

\* the responses fetch resolves with: ok is true for a 2xx status, message
\* is the message member of the JSON the server sent ("undefined" if it has
\* none), output tells whether the JSON has an output member
Responses ==
    {[ok |-> status = 200, status |-> status, message |-> message, body |-> body,
      output |-> output] :
        status \in {200, 404, 500}, message \in {"undefined", "Not Found"},
        body \in -1..MaxUnits, output \in BOOLEAN}

RemoteCall(op, returnExceptions) ==
    [NoRemote EXCEPT !.op = op, !.returnExceptions = returnExceptions]

Raise(r, message) == [r EXCEPT !.at = "threw", !.error = message]

\* post: one request sent, the call waits for the response
Post(r, path) == [r EXCEPT !.at = "awaiting", !.path = path, !.requests = @ + 1]

\* a batch that goes on to its request whatever batchOptions say
BatchAnyway(r) == Post(r, "/batch")

\* _batch up to its request
BatchInner(r) ==
    IF r.returnExceptions = "true"
    THEN Raise(r, "returnExceptions is not supported for remote clients")
    ELSE Post(r, "/batch")

\* batch up to its request; _batchWithConfig hands the inputs to _batch
Batch(r) ==
    IF r.returnExceptions = "true"
    THEN Raise(r, "returnExceptions is not supported for remote clients")
    ELSE BatchInner(r)

\* _batch from the response on
BatchResponded(r, response) ==
    LET got == [r EXCEPT !.response = response]
    IN  IF ~response.output
        THEN Raise(got, "Invalid response from remote runnable")
        ELSE [got EXCEPT !.at = "returned"]

StatusError(response) ==
    "RemoteRunnable call failed with status code " \o ToString(response.status)
        \o ": " \o response.message

\* stream from the response on
StreamResponded(r, response) ==
    LET got == [r EXCEPT !.response = response]
    IN  IF ~response.ok THEN Raise(got, StatusError(response))
        ELSE IF response.body = -1
        THEN Raise(got, "Could not begin remote stream. Please check the given URL and try again.")
        ELSE [got EXCEPT !.at = "streaming"]

\* streamLog from the response on
StreamLogResponded(r, response) ==
    LET got == [r EXCEPT !.response = response]
    IN  IF response.body = -1
        THEN Raise(got, "Could not begin remote stream log. Please check the given URL and try again.")
        ELSE [got EXCEPT !.at = "streaming"]

Over == remote.at \in {"idle", "returned", "threw"}

RemoteBatch ==
    /\ Over
    /\ \E returnExceptions \in ReturnExceptions :
          remote' = Batch(RemoteCall("batch", returnExceptions))
    /\ UNCHANGED nonRemoteVars

RemoteStream ==
    /\ Over
    /\ remote' = Post(RemoteCall("stream", "undefined"), "/stream")
    /\ UNCHANGED nonRemoteVars

RemoteStreamLog ==
    /\ Over
    /\ remote' = Post(RemoteCall("streamLog", "undefined"), "/stream_log")
    /\ UNCHANGED nonRemoteVars

\* the server's response arrives and the call goes on
RemoteRespond ==
    /\ remote.at = "awaiting"
    /\ \E response \in Responses :
          remote' = CASE remote.op = "batch" -> BatchResponded(remote, response)
                      [] remote.op = "stream" -> StreamResponded(remote, response)
                      [] OTHER -> StreamLogResponded(remote, response)
    /\ UNCHANGED nonRemoteVars

\* the caller takes the next unit of the stream, or finds it finished
RemoteYield ==
    /\ remote.at = "streaming"
    /\ remote' = IF remote.yielded < remote.response.body
                  THEN [remote EXCEPT !.yielded = @ + 1]
                  ELSE [remote EXCEPT !.at = "returned"]
    /\ UNCHANGED nonRemoteVars

InitRemote ==
    /\ Init
    /\ cfg = Fields(Filter(Unset, Unset, Unset, Unset, Unset, Unset), FALSE, "original")

NextRemote ==
    \/ RemoteBatch
    \/ RemoteStream
    \/ RemoteStreamLog
    \/ RemoteRespond
    \/ RemoteYield

SpecRemote == InitRemote /\ [][NextRemote]_vars

(***************************************************************************)
(* The channel with flow control.  transformStream is a platform stream    *)
(* and not among the source files; it is modelled from the specification:  *)
(* it takes a write only while fewer than its bound of patches are unread  *)
(* or a read is waiting, writes are taken in call order, and a read waits  *)
(* while nothing is unread.  The handlers are those of the tracer, cut at  *)
(* each await of this.writer.write: chan.pending holds the writes handed   *)
(* to the writer and not yet taken, each with the place its handler goes   *)
(* on from, chan.suspended the runs whose notification has not returned,   *)
(* chan.reading tells that the consumer's read is waiting.  Here queue is  *)
(* the patches the channel has taken.                                      *)
(***************************************************************************)

\* the largest bound of the channel
FlowBound == 1

\* the largest number of chunks a run streams here
FlowChunks == 1

Unread == Len(queue) - Len(received)

\* a write handed to the writer: the handler goes on at `then` once it is taken
Write(id, op, patch, then, threw) ==
    [id |-> id, op |-> op, patch |-> patch, then |-> then, threw |-> threw]

\* faulty variant: the handler does not wait for its write
AwaitNot(c, w) == [c EXCEPT !.pending = Append(@, w)]

\* await this.writer.write(patch)
Await(c, w) ==
    [c EXCEPT !.pending = Append(@, w), !.suspended = @ \cup {w.id}]

\* the handler suspends at its write
Suspends(c, w) ==
    /\ chan' = Await(c, w)
    /\ last' = last

\* the handler returns (or throws)
Returns(c, op, id, threw) ==
    /\ chan' = [c EXCEPT !.suspended = @ \ {id}]
    /\ last' = Notification(op, id, threw)

\* onRunCreate from the inclusion test on (lines 433-472)
EntryPart(run, root, c) ==
    LET count == CounterOf(run.name) + 1
        key   == KeyFor(run.name, count)
        patch == RunLogPatch(<<MkOp("add", LogPath(key, <<>>),
                                    LogEntryValue(run, cfg._schemaFormat))>>)
    IN  IF ~IncludeRun(cfg, root, run)
        THEN /\ UNCHANGED <<counterMapByRunName, keyMapByRunId>>
             /\ Returns(c, "create", run.id, FALSE)
        ELSE /\ counterMapByRunName' = (run.name :> count) @@ counterMapByRunName
             /\ keyMapByRunId' = (run.id :> key) @@ keyMapByRunId
             /\ IF closed THEN Returns(c, "create", run.id, TRUE)
                ELSE Suspends(c, Write(run.id, "create", patch, "return", FALSE))

\* faulty variant of the finally block: the root's completion writes nothing
FinalPartSkipped(run, c, threw) ==
    Returns(c, "update", run.id, threw)

\* the finally block of onRunUpdate up to its write (lines 502-514)
FinalPart(run, c, threw) ==
    IF run.id = rootId
    THEN IF closed THEN Returns(c, "update", run.id, TRUE)
         ELSE Suspends(c, Write(run.id, "update",
                  RunLogPatch(<<MkOp("replace", <<"final_output">>,
                                     StandardizedOutputs(run, cfg._schemaFormat))>>),
                  "close", threw))
    ELSE Returns(c, "update", run.id, threw)

FlowRunCreate ==
    /\ \E r \in RunIds :
          /\ r = Cardinality(Created) + 1
          /\ runs[r].run.id = r
          /\ r > 1 => Fed(r)
          /\ runs' = [runs EXCEPT ![r].st = "running"]
          /\ IF rootId = 0
             THEN /\ rootId' = r
                  /\ Suspends(chan, Write(r, "create",
                          RunLogPatch(<<MkOp("replace", <<>>, RootValue(runs[r].run))>>),
                          "entry", FALSE))
                  /\ UNCHANGED <<counterMapByRunName, keyMapByRunId>>
             ELSE /\ rootId' = rootId
                  /\ EntryPart(runs[r].run, rootId, chan)
    /\ UNCHANGED <<cfg, queue, closed, materialized, received, ended,
                   heap, lastLog, probe, std, wire, events, remote, tap>>

FlowTapChunk ==
    /\ \E r \in Running \ chan.suspended :
          /\ runs[r].chunks < (IF r = 1 /\ LastStep # 1 THEN runs[LastStep].chunks
                                ELSE FlowChunks)
          /\ runs' = [runs EXCEPT ![r].chunks = @ + 1]
          /\ IF r # rootId /\ HasKey(r) /\ JoinSegments(keyMapByRunId[r]) # ""
             THEN IF closed THEN Returns(chan, "tap", r, TRUE)
                  ELSE Suspends(chan, Write(r, "tap",
                           RunLogPatch(<<MkOp("add",
                               LogPath(keyMapByRunId[r], <<"streamed_output", "-">>),
                               StringValue(ChunkOf(r, runs[r].chunks + 1)))>>),
                           "return", FALSE))
             ELSE Returns(chan, "tap", r, FALSE)
    /\ UNCHANGED <<cfg, rootId, keyMapByRunId, counterMapByRunName, queue, closed,
                   materialized, received, ended,
                   heap, lastLog, probe, std, wire, events, remote, tap>>

FlowRunUpdate ==
    /\ \E r \in Running \ chan.suspended :
          LET c   == runs[r].completes
              run == [runs[r].run EXCEPT !.outputs = c.outputs, !.end_time = c.end_time]
          IN  /\ (r = 1 /\ LastStep # 1) =>
                      (runs[LastStep].st = "done" /\ runs[1].chunks = runs[LastStep].chunks)
              /\ r > 2 => runs[r - 1].st = "done"
              /\ runs' = [runs EXCEPT ![r].st = "done", ![r].run = run]
              /\ IF HasKey(r)
                 THEN IF closed THEN FinalPart(run, chan, TRUE)
                      ELSE Suspends(chan, Write(r, "update",
                               RunLogPatch(UpdateOps(run, keyMapByRunId[r],
                                                     cfg._schemaFormat)),
                               IF r = rootId THEN "final" ELSE "return", FALSE))
                 ELSE FinalPart(run, chan, FALSE)
    /\ UNCHANGED <<cfg, rootId, keyMapByRunId, counterMapByRunName, queue, closed,
                   materialized, received, ended,
                   heap, lastLog, probe, std, wire, events, remote, tap>>

\* the channel takes the oldest pending write and its handler goes on
FlowAccept ==
    /\ chan.pending # <<>>
    /\ Unread < chan.bound \/ chan.reading
    /\ LET w == Head(chan.pending)
           c == [chan EXCEPT !.pending = Tail(@), !.reading = FALSE]
       IN  /\ queue' = Append(queue, w.patch)
           /\ received' = IF chan.reading THEN Append(received, w.patch) ELSE received
           /\ CASE w.then = "entry" ->
                      /\ EntryPart(runs[w.id].run, rootId, c)
                      /\ closed' = closed
                 [] w.then = "final" ->
                      /\ FinalPart(runs[w.id].run, c, w.threw)
                      /\ UNCHANGED <<counterMapByRunName, keyMapByRunId, closed>>
                 [] w.then = "close" ->
                      /\ Returns(c, w.op, w.id, w.threw)
                      /\ closed' = (closed \/ cfg.autoClose)
                      /\ UNCHANGED <<counterMapByRunName, keyMapByRunId>>
                 [] OTHER ->
                      /\ Returns(c, w.op, w.id, w.threw)
                      /\ UNCHANGED <<counterMapByRunName, keyMapByRunId, closed>>
    /\ Consume
    /\ UNCHANGED <<cfg, rootId, runs, ended, heap, lastLog, probe, std, wire, events, remote, tap>>

\* the consumer asks for the next patch
FlowRead ==
    /\ ~ended /\ ~chan.reading
    /\ IF Unread > 0
       THEN /\ received' = Append(received, queue[Len(received) + 1])
            /\ UNCHANGED <<ended, chan>>
       ELSE IF closed /\ chan.pending = <<>>
       THEN /\ ended' = TRUE
            /\ UNCHANGED <<received, chan>>
       ELSE /\ chan' = [chan EXCEPT !.reading = TRUE]
            /\ UNCHANGED <<received, ended>>
    /\ UNCHANGED <<cfg, rootId, keyMapByRunId, counterMapByRunName, queue, closed,
                   materialized, runs, last, heap, lastLog, probe, std, wire, events, remote, tap>>

InitFlow ==
    /\ cfg \in {Fields(Filter(Unset, Unset, Unset, Unset, Unset, Unset), ac, "original") :
                    ac \in BOOLEAN}
    /\ runs \in {p \in EventPlans : \A r \in RunIds : Len(p[r].run.tags) < 2}
    /\ chan \in {[NoChan EXCEPT !.bound = b] : b \in 0..FlowBound}
    /\ rootId = 0
    /\ keyMapByRunId = <<>>
    /\ counterMapByRunName = <<>>
    /\ queue = <<>>
    /\ closed = FALSE
    /\ materialized = EmptyDoc
    /\ received = <<>>
    /\ ended = FALSE
    /\ last = Notification("none", 0, FALSE)
    /\ heap = <<>>
    /\ lastLog = NoCall
    /\ probe = NoProbe
    /\ std = NoStd
    /\ wire = NoWire
    /\ events = <<>>
    /\ remote = NoRemote
    /\ tap = NoTap

NextFlow ==
    \/ FlowRunCreate
    \/ FlowTapChunk
    \/ FlowRunUpdate
    \/ FlowAccept
    \/ FlowRead

SpecFlow == InitFlow /\ [][NextFlow]_vars

\* a tracer that closes the channel on the root's completion
InitFlowFair == InitFlow /\ cfg.autoClose

\* the consumer keeps reading and the channel takes every write it has room for
SpecFlowFair ==
    /\ InitFlowFair /\ [][NextFlow]_vars
    /\ WF_vars(FlowRead) /\ WF_vars(FlowAccept)

(***************************************************************************)
(* tapOutputIterable on its own: one generator taps the output of a run    *)
(* while runs are created and completed.  The caller's next() makes the    *)
(* generator take the next chunk of the output and run the loop body up to *)
(* its yield (TapPull); the yield hands the chunk to the caller (TapYield).*)
(***************************************************************************)

\* the largest number of chunks of a tapped output
MaxTap == 2

\* the largest number of runs created while an output is tapped
TapRuns == 2

\* the outputs that are tapped
TapOutputs ==
    {<<>>} \cup {<<x>> : x \in {"c", "d"}} \cup {<<x, y>> : x \in {"c", "d"}, y \in {"c", "d"}}

nonTapVars == <<cfg, rootId, keyMapByRunId, counterMapByRunName, queue, closed,
                materialized, received, ended, runs, last, heap, lastLog, probe,
                std, wire, events, remote, chan>>

\* tapOutputIterable(runId, output) is called
TapStart ==
    /\ tap.at = "idle"
    /\ \E r \in Running \cup {StrayId}, output \in TapOutputs :
          /\ Len(output) <= MaxTap
          /\ tap' = [NoTap EXCEPT !.at = "ready", !.runId = r, !.output = output]
    /\ UNCHANGED nonTapVars

\* the generator takes the next chunk and runs the loop body to its yield,
\* or finds the output finished and returns
TapPull ==
    /\ tap.at = "ready"
    /\ IF tap.pulled < Len(tap.output)
       THEN /\ TapOutputIterable(tap.runId, tap.output[tap.pulled + 1])
            /\ tap' = [tap EXCEPT !.pulled = @ + 1,
                                  !.at = IF last'.threw THEN "threw" ELSE "holding"]
       ELSE /\ tap' = [tap EXCEPT !.at = "done"]
            /\ UNCHANGED <<cfg, rootId, keyMapByRunId, counterMapByRunName, queue,
                           closed, last>>
    /\ Consume
    /\ UNCHANGED <<received, ended, runs, heap, lastLog, probe, std, wire,
                   events, remote, chan>>

\* yield chunk
TapYield ==
    /\ tap.at = "holding"
    /\ tap' = [tap EXCEPT !.at = "ready", !.yielded = Append(@, tap.output[tap.pulled])]
    /\ UNCHANGED nonTapVars

TapRunCreate ==
    /\ Cardinality(Created) < TapRuns
    /\ NotifyRunCreate

\* a tracer that closes on the root's completion, with and without a filter
InitTap ==
    /\ Init
    /\ cfg \in {Fields(f, TRUE, "original") :
                    f \in {Filter(Unset, Unset, Unset, Unset, Unset, Unset),
                           Filter(Unset, Unset, Unset, Unset, ListOf({"llm"}), Unset)}}

NextTap ==
    \/ TapStart
    \/ TapPull
    \/ TapYield
    \/ TapRunCreate
    \/ NotifyRunUpdate

SpecTap == InitTap /\ [][NextTap]_vars

(***************************************************************************)
(* Properties                                                              *)
(***************************************************************************)

\* C1: for every RunLog materialized from a prefix and every patch that
\* follows, RunLog.concat (the patch's ops applied to the materialized state)
\* gives the same outcome, ops and state, as RunLogPatch.concat replaying all
\* the ops against the empty document.
C1_ConcatEqualsReplay ==
    \A i \in DOMAIN heap : \A p \in LogPatches :
        RunLogConcat(heap[i], p) = RunLogPatchConcat(RunLogPatch(heap[i].ops), p)

C3_PatchesApply ==
    rootId # 0 =>
        LET doc == Replay(AllOps(queue)) IN
        /\ ~Failed(doc)
        /\ doc = materialized
        /\ doc[<<"id">>] = StrNode(IdString(rootId))
        /\ LogKeys(doc) = {JoinSegments(keyMapByRunId[r]) : r \in DOMAIN keyMapByRunId}

\* C4: no two run ids are mapped to the same key.
C4_KeysDistinct ==
    \A r1 \in DOMAIN keyMapByRunId : \A r2 \in DOMAIN keyMapByRunId :
        r1 # r2 => keyMapByRunId[r1] # keyMapByRunId[r2]

\* C5: the n-th included run of a name, in creation order, has the key
\* `name` if n = 1 and `name:n` otherwise, whatever has streamed or completed.
NthOfName(r) ==
    Cardinality({x \in DOMAIN keyMapByRunId :
                    x <= r /\ runs[x].run.name = runs[r].run.name})

C5_KeysInDiscoveryOrder ==
    \A r \in DOMAIN keyMapByRunId :
        JoinSegments(keyMapByRunId[r]) =
            IF NthOfName(r) = 1 THEN JoinSegments(runs[r].run.name)
            ELSE JoinSegments(runs[r].run.name) \o ":" \o ToString(NthOfName(r))

\* the second run of a name has completed before the first and a third exists
C5_Witness ==
    \E r1 \in DOMAIN keyMapByRunId : \E r2 \in DOMAIN keyMapByRunId :
        /\ r1 < r2
        /\ runs[r1].run.name = runs[r2].run.name
        /\ runs[r1].st = "running" /\ runs[r2].st = "done"
        /\ keyMapByRunId[r1] = runs[r1].run.name
        /\ JoinSegments(keyMapByRunId[r2]) = JoinSegments(runs[r2].run.name) \o ":2"

\* C6: the root run has no key, no patch adds a log entry carrying the root's
\* id, and the materialized document has no log entry of the root.
C6_RootNeverLogged ==
    rootId # 0 =>
        /\ rootId \notin DOMAIN keyMapByRunId
        /\ \A i \in DOMAIN queue : \A j \in DOMAIN queue[i].ops :
              LET o == queue[i].ops[j] IN
              (Len(o.path) >= 2 /\ o.path[1] = "logs" /\ <<"id">> \in DOMAIN o.value)
                  => o.value[<<"id">>] # StrNode(IdString(rootId))
        /\ ~HasEntry(materialized, rootId)

\* the root has completed under a filter that includes every run, beside an
\* included run
C6_Witness ==
    /\ rootId # 0 /\ runs[rootId].st = "done"
    /\ ~cfg.includeNames.def /\ ~cfg.includeTypes.def /\ ~cfg.includeTags.def
    /\ keyMapByRunId # <<>>
    /\ ~Failed(materialized) /\ LogKeys(materialized) # {}

\* C7: for a non-root run the include decision taken before the exclude sets
\* are applied is true if no include set is configured, and otherwise true
\* exactly if the name is in includeNames, or the type is in includeTypes, or
\* some tag is in includeTags.
C7_IncludeDecision ==
    (probe.done /\ probe.run.id # rootId) =>
        probe.include =
            IF ~cfg.includeNames.def /\ ~cfg.includeTypes.def /\ ~cfg.includeTags.def
            THEN TRUE
            ELSE \/ cfg.includeNames.def /\ probe.run.name \in cfg.includeNames.s
                 \/ cfg.includeTypes.def /\ probe.run.run_type \in cfg.includeTypes.s
                 \/ cfg.includeTags.def /\ TagsOf(probe.run) \cap cfg.includeTags.s # {}

\* included by its second tag alone, with the two other include sets
\* configured and not matching
C7_Witness ==
    /\ probe.done /\ probe.run.id # rootId /\ probe.include
    /\ cfg.includeNames.def /\ probe.run.name \notin cfg.includeNames.s
    /\ cfg.includeTypes.def /\ probe.run.run_type \notin cfg.includeTypes.s
    /\ cfg.includeTags.def /\ Len(probe.run.tags) = 2
    /\ probe.run.tags[1] \notin cfg.includeTags.s

\* C8: a run whose name is in excludeNames, whose type is in excludeTypes or
\* one of whose tags is in excludeTags is excluded, whatever it is included by.
C8_ExcludeDominates ==
    (/\ probe.done
     /\ \/ cfg.excludeNames.def /\ probe.run.name \in cfg.excludeNames.s
        \/ cfg.excludeTypes.def /\ probe.run.run_type \in cfg.excludeTypes.s
        \/ cfg.excludeTags.def /\ TagsOf(probe.run) \cap cfg.excludeTags.s # {})
        => ~probe.result

\* included by name and by tag, excluded by one of its two tags only
C8_Witness ==
    /\ probe.done /\ probe.run.id # rootId /\ probe.include /\ ~probe.result
    /\ cfg.includeNames.def /\ probe.run.name \in cfg.includeNames.s
    /\ ~(cfg.excludeNames.def /\ probe.run.name \in cfg.excludeNames.s)
    /\ ~(cfg.excludeTypes.def /\ probe.run.run_type \in cfg.excludeTypes.s)
    /\ cfg.excludeTags.def /\ Len(probe.run.tags) = 2
    /\ probe.run.tags[1] \notin cfg.excludeTags.s
    /\ probe.run.tags[2] \in cfg.excludeTags.s

\* C9: the tracer writes no remove op, and a log entry of a run id that one
\* materialized document holds is still held by the next.
C9_AppendOnly ==
    [][ /\ (queue' # queue) =>
              \A j \in DOMAIN queue'[Len(queue')].ops :
                  queue'[Len(queue')].ops[j].op # "remove"
        /\ (~Failed(materialized) /\ ~Failed(materialized'))
              => \A r \in RunIds :
                    HasEntry(materialized, r) => HasEntry(materialized', r)
      ]_vars

\* C10: a token, tapped-chunk or completion notification for a non-root run
\* id that has no key raises no error, writes no patch and leaves the key map
\* and the name counters as they were.
C10_UnknownRunIsNoOp ==
    [][ (/\ last'.op \in {"token", "tap", "update"}
         /\ last'.id # rootId
         /\ last'.id \notin DOMAIN keyMapByRunId)
            => /\ ~last'.threw
               /\ queue' = queue
               /\ keyMapByRunId' = keyMapByRunId
               /\ counterMapByRunName' = counterMapByRunName
      ]_vars

\* a token has just arrived for a created run that the filter excluded, after
\* patches of other runs were written
C10_Witness ==
    /\ last.op = "token" /\ ~last.threw
    /\ last.id \in Running /\ last.id # rootId
    /\ last.id \notin DOMAIN keyMapByRunId
    /\ keyMapByRunId # <<>>
    /\ Len(queue) >= 2

\* C11: the step that completes the root run writes one patch with the single
\* op replace /final_output carrying the root's outputs, and closes the
\* channel exactly if autoClose is set; no other step changes whether the
\* channel is closed, and with autoClose unset it is never closed.
C11_RootCompletionCloses ==
    [][ LET rootDone == /\ rootId # 0
                        /\ runs[rootId].st = "running"
                        /\ runs'[rootId].st = "done"
        IN  /\ rootDone =>
                /\ queue' = Append(queue,
                      RunLogPatch(<<MkOp("replace", <<"final_output">>,
                          StandardizedOutputs(runs'[rootId].run, cfg._schemaFormat))>>))
                /\ closed' = cfg.autoClose
            /\ ~rootDone => closed' = closed
            /\ ~cfg.autoClose => ~closed'
      ]_vars

\* the root has just completed and closed the channel, after patches of an
\* included run
C11_Witness ==
    /\ closed /\ cfg.autoClose
    /\ last = Notification("update", rootId, FALSE)
    /\ keyMapByRunId # <<>>
    /\ queue[Len(queue)].ops[1].path = <<"final_output">>

\* C12: once the channel is closed it stays closed and accepts no patch; a
\* notification delivered after close that has a patch to write (creation of
\* a run the filter includes, a token or completion for a run with a key, a
\* tapped chunk for a non-root run with a key) raises an error; the consumer
\* sees end-of-stream only after close and after reading every patch, sees
\* nothing after it, and does see it once the channel is closed.
C12_CloseIsTerminal ==
    /\ [][ /\ closed => (closed' /\ queue' = queue)
           /\ (closed /\ last'.op = "create"
                 /\ IncludeRun(cfg, rootId, runs'[last'.id].run)) => last'.threw
           /\ (closed /\ last'.op \in {"token", "update"}
                 /\ last'.id \in DOMAIN keyMapByRunId) => last'.threw
           /\ (closed /\ last'.op = "tap" /\ last'.id # rootId
                 /\ last'.id \in DOMAIN keyMapByRunId) => last'.threw
           /\ ended' => (closed' /\ received' = queue')
           /\ ended => (ended' /\ received' = received)
         ]_vars
    /\ closed ~> ended

\* after close a token of a run with a key was refused, and the consumer has
\* read every patch and seen end-of-stream
C12_Witness ==
    /\ closed /\ ended /\ received = queue
    /\ last.op = "token" /\ last.threw
    /\ last.id \in DOMAIN keyMapByRunId

\* C13: each write appends one patch to the channel and each read hands the
\* consumer the oldest unread patch, so what the consumer has received is
\* always the patches written, in write order and without gap or repetition,
\* up to the number read, whichever runs they come from.
C13_OrderedChannel ==
    /\ [](received = SubSeq(queue, 1, Len(received)))
    /\ [][ /\ IsPrefix(queue, queue') /\ Len(queue') <= Len(queue) + 1
           /\ received' # received =>
                 /\ queue' = queue
                 /\ received' = Append(received, queue[Len(received) + 1])
         ]_vars

\* the consumer has read the entries of two runs and then a chunk of the
\* first of them, and one more patch is unread
C13_Witness ==
    /\ Len(received) = 4 /\ Len(queue) > Len(received)
    /\ received[2].ops[1].path = <<"logs", "a">>
    /\ received[3].ops[1].path = <<"logs", "a:2">>
    /\ received[4].ops[1].path = <<"logs", "a", "streamed_output", "-">>

\* C14: in the streaming_events format the standardized inputs of a
\* retriever, llm or prompt run are its raw inputs, and those of any other
\* run are the value under `input` if the inputs have that one member only,
\* and the raw inputs otherwise.
C14_StandardizedInputs ==
    (std.done /\ std.op = "inputs" /\ cfg._schemaFormat = "streaming_events") =>
        /\ ~std.threw
        /\ std.value =
              IF std.run.run_type \in {"retriever", "llm", "prompt"}
              THEN MappingValue(std.run.inputs)
              ELSE IF DOMAIN std.run.inputs = {"input"}
              THEN ValueOf(std.run.inputs["input"])
              ELSE MappingValue(std.run.inputs)

\* C15: the standardized outputs are the raw outputs in the original format
\* and for retriever, llm and prompt runs; for any other run in the
\* streaming_events format they are the value under `output` exactly if the
\* outputs have that one member only and its value is not undefined, and the
\* raw outputs (undefined when absent) otherwise.
C15_StandardizedOutputs ==
    (std.done /\ std.op = "outputs") =>
        LET o == std.run.outputs IN
        std.value =
            IF ~o.def THEN UndefinedValue
            ELSE IF cfg._schemaFormat = "original" THEN MappingValue(o.m)
            ELSE IF std.run.run_type \in {"retriever", "llm", "prompt"}
            THEN MappingValue(o.m)
            ELSE IF DOMAIN o.m = {"output"} /\ o.m["output"] # Undefined
            THEN ValueOf(o.m["output"])
            ELSE MappingValue(o.m)

\* C15 as stated: unwrapped exactly if the outputs have the one member
\* `output`, whatever its value
C15_AsStated ==
    (std.done /\ std.op = "outputs") =>
        LET o == std.run.outputs IN
        std.value =
            IF ~o.def THEN UndefinedValue
            ELSE IF cfg._schemaFormat = "original" THEN MappingValue(o.m)
            ELSE IF std.run.run_type \in {"retriever", "llm", "prompt"}
            THEN MappingValue(o.m)
            ELSE IF DOMAIN o.m = {"output"}
            THEN ValueOf(o.m["output"])
            ELSE MappingValue(o.m)

\* a chain's outputs that hold `output` beside another member were returned
\* whole in the streaming_events format
C15_Witness ==
    /\ std.done /\ std.op = "outputs" /\ cfg._schemaFormat = "streaming_events"
    /\ std.run.run_type = "chain" /\ std.run.outputs.def
    /\ DOMAIN std.run.outputs.m = {"output", "x"}
    /\ std.value = MappingValue(std.run.outputs.m)

\* C16: in the original format standardizing the inputs of any run raises an
\* error and returns nothing.
C16_OriginalInputsThrow ==
    (std.done /\ std.op = "inputs" /\ cfg._schemaFormat = "original") =>
        (std.threw /\ std.value = UndefinedValue)

\* the inputs of an llm run, which the other format passes through, were
\* refused
C16_Witness ==
    /\ std.done /\ std.op = "inputs" /\ cfg._schemaFormat = "original"
    /\ std.run.run_type = "llm" /\ std.run.inputs = ("messages" :> "hi")
    /\ std.threw

\* some op of the list is invalid when the list is applied to doc in order
RECURSIVE SomeOpInvalid(_, _)
SomeOpInvalid(doc, ops) ==
    IF ops = <<>> THEN FALSE
    ELSE LET next == ApplyOperation(doc, ops[1])
         IN  Failed(next) \/ SomeOpInvalid(next, Tail(ops))

ConcatLeft(a, b, c) ==
    LET ab == RunLogPatchConcat(a, b)
    IN  IF ab.ok THEN RunLogConcat(ab.log, c) ELSE Threw

\* a.concat(b.concat(c)): RunLogPatch.concat twice
ConcatRight(a, b, c) ==
    LET bc == RunLogPatchConcat(b, c)
    IN  IF bc.ok THEN RunLogPatchConcat(a, bc.log) ELSE Threw

\* C18: for the ops a of every RunLog built and all patches b and c, if one
\* of a.concat(b).concat(c) and a.concat(b.concat(c)) returns then both do,
\* with the same ops, a's then b's then c's, and the same state; and the two
\* orders of two patches that both concatenate give different ops unless the
\* op lists commute.
C18_ConcatAssociative ==
    \A i \in DOMAIN heap : \A b \in LogPatches : \A c \in LogPatches :
        LET a     == RunLogPatch(heap[i].ops)
            left  == ConcatLeft(a, b, c)
            right == ConcatRight(a, b, c)
            ab    == RunLogPatchConcat(a, b)
            ba    == RunLogPatchConcat(b, a)
        IN  /\ (left.ok \/ right.ok) =>
                  /\ left = right
                  /\ left.log.ops = a.ops \o b.ops \o c.ops
            /\ (ab.ok /\ ba.ok /\ a.ops \o b.ops # b.ops \o a.ops) =>
                  ab.log.ops # ba.log.ops

\* C19: reviving the serialization of a typed value (a message of any class
\* with its content, additional fields, name, role or tool_call_id, a
\* document, an array or mapping nesting them) gives a value of the same
\* class with the same fields.
C19_RoundTrip ==
    wire.op = "roundtrip" => wire.got = wire.x

\* what a value holds of null and dates only, through arrays and mappings
\* without any signature of revive
RECURSIVE OnlyNullAndDates(_)
OnlyNullAndDates(v) ==
    \/ v.t \in {"null", "date"}
    \/ v.t = "arr" /\ \A i \in DOMAIN v.items : OnlyNullAndDates(v.items[i])
    \/ /\ v.t = "obj" /\ v.cls = ""
       /\ DOMAIN v.m \subseteq {"at", "none", "inner"}
       /\ \A k \in DOMAIN v.m : OnlyNullAndDates(v.m[k])

\* C20: reviving what revive returned for a value in wire form gives that
\* same result again, and null and dates, nested at any depth in arrays and
\* plain mappings, are returned as they are.
C20_ReviveIdempotent ==
    /\ wire.op = "revive again" => wire.got = wire.prev
    /\ (wire.op = "revive" /\ OnlyNullAndDates(wire.x)) => wire.got = wire.x

\* the first signature, in revive's order, that the key set is a superset of
FirstSignature(keys) ==
    IF {"page_content", "metadata"} \subseteq keys THEN "document"
    ELSE IF {"content", "type", "additional_kwargs"} \subseteq keys THEN "message"
    ELSE IF {"text", "generation_info", "type"} \subseteq keys THEN "generation"
    ELSE IF {"tool", "tool_input", "log", "type"} \subseteq keys THEN "agent action"
    ELSE IF {"return_values", "log", "type"} \subseteq keys THEN "agent finish"
    ELSE IF {"generations", "run", "type"} \subseteq keys THEN "LLM result"
    ELSE IF {"messages"} \subseteq keys THEN "chat prompt value"
    ELSE IF {"text"} \subseteq keys THEN "plain-text prompt value"
    ELSE "generic"

\* C21: a mapping handed to revive is revived by the branch of the first
\* signature, in the order document, message, generation, agent action, agent
\* finish, LLM result, chat prompt value, plain-text prompt value, that its
\* key set is a superset of, and by the generic field-wise recursion only if
\* its key set is a superset of none; the generic recursion returns a plain
\* mapping with the same keys.
C21_SignatureDispatch ==
    (wire.op = "revive" /\ wire.x.t = "obj") =>
        /\ ReviveBranch(wire.x) = FirstSignature(DOMAIN wire.x.m)
        /\ (ReviveBranch(wire.x) = "generic" /\ wire.got # Thrown) =>
              (wire.got.cls = "" /\ DOMAIN wire.got.m = DOMAIN wire.x.m)

\* the positions of run id's events in the stream
EventsOf(id) == {i \in DOMAIN events : events[i].run_id = id}

\* C22: in every prefix of the event stream the first event of a run is its
\* start event and it has no other; an end event of a run is its last event;
\* every event between is a stream event; the events of one run carry the
\* same type, run id, name, tags and metadata; and once the root has
\* completed every run in the stream has its end event.
C22_RunEventOrder ==
    \A id \in RunIds :
        LET own   == EventsOf(id)
            first == CHOOSE i \in own : \A j \in own : i <= j
            final == CHOOSE i \in own : \A j \in own : j <= i
            type  == runs[id].run.run_type
        IN  own # {} =>
              /\ events[first].event = "on_" \o type \o "_start"
              /\ \A i \in own \ {first} :
                    events[i].event \in {"on_" \o type \o "_stream", "on_" \o type \o "_end"}
              /\ \A i \in own \ {final} : events[i].event # "on_" \o type \o "_end"
              /\ \A i \in own :
                    /\ events[i].name = runs[id].run.name
                    /\ events[i].tags = runs[id].run.tags
                    /\ events[i].metadata = runs[id].run.metadata
              /\ runs[1].st = "done" => events[final].event = "on_" \o type \o "_end"

\* the stream of the three-step sequence is complete, the start of step 2
\* lying between the stream event and the end event of step 1
C22_Witness ==
    /\ runs[1].st = "done" /\ runs[2].chunks = 2
    /\ \E i \in DOMAIN events, j \in DOMAIN events, k \in DOMAIN events :
          /\ i < j /\ j < k
          /\ events[i].run_id = 2 /\ events[i].event = "on_chain_stream"
          /\ events[j].run_id = 3 /\ events[j].event = "on_chain_start"
          /\ events[k].run_id = 2 /\ events[k].event = "on_chain_end"

\* a run passes the filter by its name, type and tags
Wanted(run) ==
    /\ \/ ~cfg.includeNames.def /\ ~cfg.includeTypes.def /\ ~cfg.includeTags.def
       \/ cfg.includeNames.def /\ run.name \in cfg.includeNames.s
       \/ cfg.includeTypes.def /\ run.run_type \in cfg.includeTypes.s
       \/ cfg.includeTags.def /\ TagsOf(run) \cap cfg.includeTags.s # {}
    /\ ~(cfg.excludeNames.def /\ run.name \in cfg.excludeNames.s)
    /\ ~(cfg.excludeTypes.def /\ run.run_type \in cfg.excludeTypes.s)
    /\ ~(cfg.excludeTags.def /\ TagsOf(run) \cap cfg.excludeTags.s # {})

\* the names of run id's events, in stream order
RECURSIVE PhasesOf(_, _)
PhasesOf(evs, id) ==
    IF evs = <<>> THEN <<>>
    ELSE (IF Head(evs).run_id = id THEN <<Head(evs).event>> ELSE <<>>)
             \o PhasesOf(Tail(evs), id)

\* C23: under every filter the stream holds events of those runs only whose
\* name, type and tags pass the filter, the root like any other run, and of
\* every such run each event of its lifecycle so far: its start when it is
\* created, one stream event for each chunk tapped, its end when it has
\* completed.  With includeNames = ["1"] the complete stream of the sequence
\* is the events of step "1" alone, and with excludeNames = ["2"] and
\* includeTags = ["my_tag"] those of step "3" alone.
C23_FilteredEvents ==
    /\ \A i \in DOMAIN events : Wanted(runs[events[i].run_id].run)
    /\ \A r \in Created :
          Wanted(runs[r].run) =>
              LET type == runs[r].run.run_type IN
              PhasesOf(events, r) =
                  <<"on_" \o type \o "_start">>
                  \o [k \in 1..runs[r].chunks |-> "on_" \o type \o "_stream"]
                  \o (IF runs[r].st = "done" THEN <<"on_" \o type \o "_end">> ELSE <<>>)
    /\ (runs[1].st = "done" /\ LastStep # 1) =>
          /\ cfg.includeNames = ListOf({<<"1">>}) =>
                {events[i].name : i \in DOMAIN events} = {<<"1">>}
          /\ (cfg.excludeNames = ListOf({<<"2">>}) /\ Len(runs[MaxRuns].run.tags) = 2
                 /\ cfg.includeTags = ListOf({"my_tag"})) =>
                {events[i].name : i \in DOMAIN events} = {<<ToString(MaxRuns - 1)>>}
                    \cup {<<ToString(k)>> : k \in 3..(MaxRuns - 2)}

\* the sequence with the steps "2" and "3" tagged has completed under
\* excludeNames = ["2"], includeTags = ["my_tag"]: the stream is the start,
\* the stream events and the end of step "3"
C23_Witness ==
    /\ runs[1].st = "done" /\ LastStep = MaxRuns
    /\ cfg.excludeNames = ListOf({<<"2">>}) /\ cfg.includeTags = ListOf({"my_tag"})
    /\ runs[MaxRuns].chunks = 1 /\ Len(events) = 3
    /\ \A i \in DOMAIN events : events[i].run_id = MaxRuns
    /\ events[2].chunk = Reversed(MaxRuns - 1)

\* the chunks of run id's stream events, in stream order
RECURSIVE ChunksOf(_, _)
ChunksOf(evs, id) ==
    IF evs = <<>> THEN <<>>
    ELSE (IF Head(evs).run_id = id /\ Head(evs).chunk # "" THEN <<Head(evs).chunk>> ELSE <<>>)
             \o ChunksOf(Tail(evs), id)

\* a sequence runs with no filter set
Unfiltered ==
    /\ LastStep # 1
    /\ \A f \in {"includeNames", "includeTypes", "includeTags",
                  "excludeNames", "excludeTypes", "excludeTags"} : ~cfg[f].def

\* what the sequence's events show whatever its steps stream: the wrapper's
\* start comes first and its end last, the steps start in their order, and
\* each carries its seq:step tag
SequenceFrame ==
    /\ events # <<>> => events[1] = [event |-> "on_chain_start", name |-> runs[1].run.name,
                                      run_id |-> 1, tags |-> <<>>, metadata |-> <<>>,
                                      chunk |-> ""]
    /\ \A r \in Created \ {1} :
          /\ \A i \in EventsOf(r) : events[i].tags[1] = "seq:step:" \o ToString(r - 1)
          /\ r + 1 \in Created =>
                \A i \in EventsOf(r), j \in EventsOf(r + 1) :
                    (events[i].event = "on_chain_start" /\ events[j].event = "on_chain_start")
                        => i < j
    /\ runs[1].st = "done" =>
          /\ events[Len(events)].run_id = 1
          /\ events[Len(events)].event = "on_chain_end"

\* C24: in a sequence of steps run without filter the wrapper's start event
\* is the first event, step i's events carry the tag seq:step:<i>, step i's
\* start precedes step i+1's start, every completed step has its start, one
\* stream event for each chunk it streamed (none if it streamed none) and its
\* end, the wrapper has one stream event for each chunk of the last step,
\* carrying that chunk, in order, and the wrapper's end event is the last
\* event of the stream.
C24_SequenceEvents ==
    Unfiltered =>
        /\ SequenceFrame
        /\ \A r \in Created \ {1} :
              runs[r].st = "done" =>
                  PhasesOf(events, r) =
                      <<"on_chain_start">>
                      \o [k \in 1..runs[r].chunks |-> "on_chain_stream"]
                      \o <<"on_chain_end">>
        /\ runs[1].st = "done" =>
              ChunksOf(events, 1) = ChunksOf(events, LastStep)

\* C24 as stated: every completed step has a stream event between its start
\* and its end, and the wrapper has exactly one stream event, which carries
\* the last step's chunk
C24_AsStated ==
    Unfiltered =>
        /\ SequenceFrame
        /\ \A r \in Created \ {1} :
              runs[r].st = "done" =>
                  PhasesOf(events, r) = <<"on_chain_start", "on_chain_stream", "on_chain_end">>
        /\ runs[1].st = "done" =>
              /\ Len(ChunksOf(events, 1)) = 1
              /\ ChunksOf(events, 1) = ChunksOf(events, LastStep)

\* the three-step sequence of the test, each step streaming one chunk, has
\* yielded its twelve events in the order the test expects
C24_Witness ==
    /\ Unfiltered /\ runs[1].st = "done" /\ Len(events) = 12
    /\ [i \in 1..12 |-> events[i].run_id] = <<1, 2, 2, 3, 2, 3, 4, 3, 4, 1, 4, 1>>
    /\ [i \in 1..12 |-> events[i].chunk] =
          <<"", "", "olleh", "", "", "hello", "", "", "olleh", "olleh", "", "">>
    /\ events[10].event = "on_chain_stream"

\* C25: a remote batch call that asks for returnExceptions has raised its
\* error without sending any request to the server and without receiving any
\* response, and it never goes on as a batch.
C25_ReturnExceptionsRejected ==
    (remote.op = "batch" /\ remote.returnExceptions = "true") =>
        /\ remote.at = "threw"
        /\ remote.error = "returnExceptions is not supported for remote clients"
        /\ remote.requests = 0
        /\ remote.response = NoResponse

C25_Witness ==
    /\ remote.op = "batch" /\ remote.returnExceptions = "true"
    /\ remote.at = "threw" /\ remote.requests = 0

\* C26: once a stream or streamLog call has its response, a response that is
\* not OK has made the call raise the error that embeds the status code and
\* the server's message, with no unit yielded, whether or not the response
\* has a body; an OK response without a body has made it raise another error.
C26_StreamErrors ==
    (remote.op \in {"stream", "streamLog"} /\ remote.at \in {"streaming", "returned", "threw"}) =>
        /\ ~remote.response.ok =>
              /\ remote.at = "threw"
              /\ remote.error = StatusError(remote.response)
              /\ remote.yielded = 0
        /\ (remote.response.ok /\ remote.response.body = -1) =>
              /\ remote.at = "threw"
              /\ remote.error \notin {"", StatusError(remote.response)}

\* what holds of the channel in every state: the patches taken and not yet
\* read are never more than the bound, every write still pending belongs to
\* a notification that has not returned, and a read waits only while
\* nothing is unread
FlowInvariant ==
    /\ Unread >= 0 /\ Unread <= chan.bound
    /\ \A i \in DOMAIN chan.pending : chan.pending[i].id \in chan.suspended
    /\ chan.reading => Unread = 0

\* what holds of every step: a write is taken only while fewer patches than
\* the bound are unread or a read is waiting, a suspended notification
\* returns only in the step that takes its write, and the consumer gets a
\* patch only if one has been taken, the oldest unread one
FlowStep ==
    /\ Len(queue') > Len(queue) => (Unread < chan.bound \/ chan.reading)
    /\ \A id \in chan.suspended \ chan'.suspended :
          /\ chan.pending # <<>> /\ Head(chan.pending).id = id
          /\ queue' = Append(queue, Head(chan.pending).patch)
    /\ received' # received =>
          /\ Len(received) < Len(queue')
          /\ received' = Append(received, queue'[Len(received) + 1])

\* C27: the channel applies backpressure.  A notification that writes a
\* patch stays suspended until the channel has taken its write, the channel
\* takes a write only while fewer patches than its bound are unread (or a
\* read is waiting for one), a read waits while no patch is available, and
\* the patches written and not yet read never exceed the bound.
C27_Backpressure == []FlowInvariant /\ [][FlowStep]_vars

\* with one patch unread under a bound of one, two notifications of
\* different runs are suspended at their writes
C27_Witness ==
    /\ chan.bound = 1 /\ Unread = 1 /\ ~chan.reading
    /\ Len(chan.pending) = 2
    /\ Cardinality(chan.suspended) = 2

\* the op names and the paths of the completion patch of a run with the
\* given key, as the claim lists them
CompletionShape(key, schemaFormat, hasEndTime) ==
    (IF schemaFormat = "streaming_events"
     THEN <<[op |-> "replace", path |-> <<"logs">> \o key \o <<"inputs">>]>> ELSE <<>>)
    \o <<[op |-> "add", path |-> <<"logs">> \o key \o <<"final_output">>]>>
    \o (IF hasEndTime
        THEN <<[op |-> "add", path |-> <<"logs">> \o key \o <<"end_time">>]>> ELSE <<>>)

\* the completion of run r is notified in this step
Completes(r) == runs[r].st = "running" /\ runs'[r].st = "done"

\* C28: the completion notification of a run that has a key writes exactly
\* one patch (none, and it throws, if the channel is closed); its ops are, in
\* this order, in the streaming_events format only a replace of
\* /logs/<key>/inputs with the re-standardized inputs, an add of
\* /logs/<key>/final_output, and only if the run has an end time an add of
\* /logs/<key>/end_time.  In the original format no op written by the tracer
\* has a path ending in inputs.
C28_CompletionOps ==
    /\ [][\A r \in RunIds :
            (Completes(r) /\ HasKey(r)) =>
                IF closed THEN queue' = queue /\ last'.threw
                ELSE LET ops == queue'[Len(queue')].ops
                         run == runs'[r].run
                     IN  /\ Len(queue') = Len(queue) + 1
                         /\ ~last'.threw
                         /\ [i \in DOMAIN ops |-> [op |-> ops[i].op, path |-> ops[i].path]]
                                = CompletionShape(keyMapByRunId[r], cfg._schemaFormat,
                                                  run.end_time.def)
                         /\ cfg._schemaFormat = "streaming_events" =>
                                ops[1].value = StandardizedInputs(run, cfg._schemaFormat).value]_vars
    /\ [](cfg._schemaFormat = "original" =>
            \A i \in DOMAIN queue : \A j \in DOMAIN queue[i].ops :
                LET path == queue[i].ops[j].path
                IN  Len(path) > 2 => path[Len(path)] # "inputs")

\* a run with a key and an end time has completed in the streaming_events
\* format: its patch of three ops is the last one written
C28_Witness ==
    /\ last.op = "update" /\ ~last.threw /\ HasKey(last.id)
    /\ cfg._schemaFormat = "streaming_events"
    /\ queue # <<>>
    /\ Len(queue[Len(queue)].ops) = 3
    /\ queue[Len(queue)].ops[1].op = "replace"

\* the number of entries of the array member of run r's log entry in doc
EntryLen(doc, r, member) ==
    LET path == LogPath(keyMapByRunId[r], <<member>>)
    IN  IF path \in DOMAIN doc THEN Len(doc[path].items) ELSE 0

\* a token notification of run r writes its patch in this step
TokenWritten(r) ==
    Len(queue') = Len(queue) + 1 /\ last'.op = "token" /\ last'.id = r

\* C29: a token notification that writes does so for a run that has a key
\* and writes one patch of two add ops, the raw token appended to
\* /logs/<key>/streamed_output_str/- and then the chunk value appended to
\* /logs/<key>/streamed_output/-; the number of entries of a run's
\* streamed_output_str grows by one with each of its token notifications
\* and changes in no other step, so that it equals the number of the run's
\* token notifications, and it never exceeds the number of entries of the
\* run's streamed_output.
C29_TokenPatch ==
    /\ [][  /\ \A r \in RunIds \cup {StrayId} :
                TokenWritten(r) =>
                    /\ HasKey(r)
                    /\ LET ops == queue'[Len(queue')].ops
                       IN  /\ Len(ops) = 2
                           /\ ops[1].op = "add" /\ ops[2].op = "add"
                           /\ ops[1].path = <<"logs">> \o keyMapByRunId[r]
                                                \o <<"streamed_output_str", "-">>
                           /\ ops[2].path = <<"logs">> \o keyMapByRunId[r]
                                                \o <<"streamed_output", "-">>
                           /\ \E token \in Tokens : ops[1].value = StringValue(token)
            /\ (~Failed(materialized) /\ ~Failed(materialized')) =>
                  \A r \in DOMAIN keyMapByRunId :
                      EntryLen(materialized', r, "streamed_output_str")
                          = EntryLen(materialized, r, "streamed_output_str")
                                + (IF TokenWritten(r) THEN 1 ELSE 0)
          ]_vars
    /\ [](~Failed(materialized) =>
            \A r \in DOMAIN keyMapByRunId :
                EntryLen(materialized, r, "streamed_output_str")
                    <= EntryLen(materialized, r, "streamed_output"))

\* C30: for a chat-style run (its inputs have a defined messages member) the
\* value appended to streamed_output is the chunk the engine supplied when
\* that chunk is a chat generation chunk, and otherwise (no chunk, or a
\* plain generation chunk) an AI message chunk wrapping the raw token; for a
\* run that is not chat-style it is the raw token whatever chunk was supplied.
C30_ChunkValue ==
    (std.done /\ std.op = "chunk") =>
        LET chatStyle == /\ "messages" \in DOMAIN std.run.inputs
                         /\ std.run.inputs["messages"] # Undefined
        IN  std.value =
                StringValue(IF ~chatStyle THEN std.token
                            ELSE IF std.chunk = "chat"
                            THEN "ChatGenerationChunk(" \o std.token \o ")"
                            ELSE "AIMessageChunk(" \o std.token \o ")")

\* a chat-style run was given a chat generation chunk and the value is that chunk
C30_Witness ==
    /\ std.done /\ std.op = "chunk" /\ std.chunk = "chat"
    /\ std.run.inputs = ("messages" :> "hi")
    /\ std.value = StringValue("ChatGenerationChunk(x)")

\* the log entry of run r as doc holds it (the empty function if it holds none)
EntryOf(doc, r) ==
    IF LogPath(keyMapByRunId[r], <<>>) \in DOMAIN doc
    THEN SubTree(doc, LogPath(keyMapByRunId[r], <<>>))
    ELSE <<>>

\* C31: whatever the interleaving of the notifications of different runs, a
\* notification for one run leaves the materialized entry of every other run
\* as it was, so that an entry holds only what was streamed for its own run
\* id and the final_output and end_time of its own completion.
C31_RunIsolation ==
    [][ (queue' # queue /\ ~Failed(materialized) /\ ~Failed(materialized')) =>
            \A x \in DOMAIN keyMapByRunId :
                (last'.id # x /\ EntryOf(materialized, x) # <<>>) =>
                    EntryOf(materialized', x) = EntryOf(materialized, x)
      ]_vars

\* the ops written after the first patch
LaterOps == AllOps(IF queue = <<>> THEN <<>> ELSE Tail(queue))

\* C32: the root is initialized exactly once.  The first run-created
\* notification sets the root id and writes, as the very first patch of the
\* stream, one replace op at the document root whose value has an empty logs
\* map; the root id never changes afterwards and no later patch has an op at
\* the document root.
C32_RootInitializedOnce ==
    /\ [](queue # <<>> =>
            /\ rootId # 0
            /\ Len(queue[1].ops) = 1
            /\ queue[1].ops[1].op = "replace"
            /\ queue[1].ops[1].path = <<>>
            /\ queue[1].ops[1].value[<<"id">>] = StrNode(IdString(rootId))
            /\ SubTree(queue[1].ops[1].value, <<"logs">>) = EmptyDoc
            /\ \A i \in DOMAIN LaterOps : LaterOps[i].path # <<>>)
    /\ [][ /\ rootId # 0 => rootId' = rootId
           /\ (rootId = 0 /\ last'.op = "create") =>
                 (rootId' = last'.id /\ Len(queue') = 1)
         ]_vars

\* the root has completed after other runs were created and have streamed:
\* the first patch is still the only one with an op at the document root
C32_Witness ==
    /\ rootId # 0 /\ last = Notification("update", rootId, FALSE)
    /\ Len(queue) > 3
    /\ Cardinality(DOMAIN keyMapByRunId) > 1

\* C33: for every run that has a key, every op written to the channel whose
\* path lies under /logs/<key>/ comes after an add op at /logs/<key>,
\* whatever the interleaving of the notifications of different runs.
C33_EntryBeforeMembers ==
    \A r \in DOMAIN keyMapByRunId :
        LET ops  == AllOps(queue)
            base == LogPath(keyMapByRunId[r], <<>>)
        IN  \A i \in DOMAIN ops :
                (Len(ops[i].path) > Len(base) /\ IsPrefix(base, ops[i].path)) =>
                    \E j \in 1..(i - 1) : ops[j].op = "add" /\ ops[j].path = base

\* run r is created in this step
Creates(r) == runs[r].st = "unseen" /\ runs'[r].st = "running"

\* C34: the creation of a run that is the root or that the filter excludes
\* leaves the key map and the name counters as they were and writes no op
\* under /logs (it writes nothing, or the root initialization if it is the
\* first run); the counter of a name is the number of included runs of that
\* name, and an included run that no included run of its name precedes has
\* its bare name as key, whatever excluded runs of that name came before.
C34_ExcludedCreation ==
    /\ [][\A r \in RunIds :
            (Creates(r) /\ (rootId' = r \/ ~Wanted(runs'[r].run))) =>
                /\ keyMapByRunId' = keyMapByRunId
                /\ counterMapByRunName' = counterMapByRunName
                /\ IF rootId = 0
                   THEN /\ Len(queue') = 1
                        /\ \A j \in DOMAIN queue'[1].ops : queue'[1].ops[j].path = <<>>
                   ELSE queue' = queue]_vars
    /\ [](/\ \A name \in DOMAIN counterMapByRunName :
               counterMapByRunName[name] =
                   Cardinality({r \in DOMAIN keyMapByRunId : runs[r].run.name = name})
           /\ \A r \in DOMAIN keyMapByRunId :
               (\A x \in DOMAIN keyMapByRunId : x < r => runs[x].run.name # runs[r].run.name)
                   => keyMapByRunId[r] = runs[r].run.name)

\* a run named like an earlier run that the filter excluded has its bare name
\* as key, and the name was counted once
C34_Witness ==
    \E r \in DOMAIN keyMapByRunId : \E x \in Created :
        /\ x # rootId /\ x < r /\ ~HasKey(x) /\ ~Wanted(runs[x].run)
        /\ runs[x].run.name = runs[r].run.name
        /\ keyMapByRunId[r] = runs[r].run.name
        /\ counterMapByRunName[runs[r].run.name] = 1

\* the root's completion has been notified
RootCompletionDelivered == IF rootId = 0 THEN FALSE ELSE runs[rootId].st = "done"

\* the consumer has every patch handed to the writer, the last of them the
\* replace of /final_output, and has seen the end of the stream
AllReceivedAndEnded ==
    /\ ended /\ closed
    /\ chan.pending = <<>>
    /\ received = queue
    /\ queue # <<>>
    /\ queue[Len(queue)].ops[1].op = "replace"
    /\ queue[Len(queue)].ops[1].path = <<"final_output">>

\* C35: if the consumer keeps reading and every suspended write is
\* eventually taken, then once the root's completion is notified with
\* autoClose enabled the consumer eventually has received every patch
\* written, in order, the last one being the replace of /final_output, and
\* has observed the end of the stream.
C35_DrainedBeforeEnd ==
    (RootCompletionDelivered /\ cfg.autoClose) ~> AllReceivedAndEnded

\* the sequence of three steps has run to its end and the consumer has
\* received all of its patches and seen the end of the stream
C35_Witness ==
    /\ AllReceivedAndEnded /\ cfg.autoClose
    /\ Cardinality(Created) = MaxRuns
    /\ Len(received) > MaxRuns

\* the generator taps a run that is not the root and has a key
Targeted == tap.runId # rootId /\ HasKey(tap.runId)

\* the values the channel holds for /logs/<key>/streamed_output/- of the
\* tapped run, in the order written
TapWritten ==
    LET Mine(o) == /\ o.op = "add"
                   /\ o.path = LogPath(keyMapByRunId[tap.runId], <<"streamed_output", "-">>)
    IN  [i \in DOMAIN SelectSeq(AllOps(queue), Mine) |->
            SelectSeq(AllOps(queue), Mine)[i].value]

\* the first n chunks of the tapped output as the values of their ops
TapExpected(n) == [i \in 1..n |-> StringValue(tap.output[i])]

\* what holds of the generator whether or not every chunk gets yielded: the
\* chunks yielded are the first chunks of the output, unchanged and in
\* order, one for each chunk taken but the one the generator holds; for a
\* non-root run with a key the add of a chunk is in the channel when the
\* chunk is yielded; for the root or a run without a key the generator
\* neither throws nor writes
TapFrame ==
    /\ tap.yielded = SubSeq(tap.output, 1, Len(tap.yielded))
    /\ Len(tap.yielded) = tap.pulled - (IF tap.at \in {"holding", "threw"} THEN 1 ELSE 0)
    /\ (tap.at # "idle" /\ Targeted) =>
          TapWritten = TapExpected(tap.pulled - (IF tap.at = "threw" THEN 1 ELSE 0))
    /\ (tap.at # "idle" /\ ~Targeted) => tap.at # "threw"

\* the generator takes a chunk in this step
TapTakes == tap'.pulled = tap.pulled + 1

====
